---- MODULE Spec2Model ----
(***************************************************************************)
(* Model of the shotlist / Getty search application (src/server.js, the    *)
(* React component App): the workflow controller, the entity extractor,   *)
(* the sequential search aggregator, the selection ledger and the export  *)
(* compiler.  React state hooks are the variables; every event handler    *)
(* and every continuation of an awaited call is one action.  The passive  *)
(* effect on [selectedItems] (lines 201-204) is flushed before the next   *)
(* event is handled, so it is part of every action that replaces the      *)
(* selectedItems array.                                                    *)
(***************************************************************************)
EXTENDS Integers, Sequences, FiniteSets, TLC

VARIABLES
    script,         \* useState('')                      line 156
    shotlist,       \* useState<Person[]>([])            line 157
    gettyResults,   \* useState<PersonGettyResults[]>([]) line 158
    currentStep,    \* useState(1)                       line 159
    isLoading,      \* useState(false)                   line 162
    error,          \* useState('')                      line 163
    accessToken,    \* useState<string | null>(null)     line 164
    exportText,     \* useState('')                      line 165
    selectedItems,  \* useState<SelectedItem[]>([])      line 177
    collections,    \* useState({billboard: true, ...})  line 181
    usePMCARC,      \* useState(true)                    line 190
    tokenPc,        \* position of the getAccessToken effect (lines 207-243)
    genPc,          \* position of handleGenerateShotlist (lines 255-296)
    search,         \* position and locals of handleSearchGetty (lines 299-335), with
                    \* the number of records of each answer of the run (history)
    inFlight,       \* provider requests issued and not yet answered
    requests,       \* provider requests issued by the current search run, in order
    lastOp,         \* the last selection handler that ran (history)
    isDownloading,  \* useState(false)                   line 178
    download,       \* position and locals of downloadSelectedAsZip (lines 706-751)
    gateway         \* the request a provider gateway is serving (server.js lines
                    \* 27-104, api/getty-videos.js and its photo twin)

workflowVars == <<script, shotlist, gettyResults, currentStep, isLoading, error>>
filterVars == <<collections, usePMCARC>>
ledgerVars == <<selectedItems, exportText, lastOp>>
searchVars == <<search, inFlight, requests>>
pkgVars == <<isDownloading, download>>
vars == <<script, shotlist, gettyResults, currentStep, isLoading, error,
          accessToken, exportText, selectedItems, collections, usePMCARC,
          tokenPc, genPc, search, inFlight, requests, lastOp,
          isDownloading, download, gateway>>

----------------------------------------------------------------------------
(* Bounds of the model *)

\* longest entity list the generative model returns (pipeline specification)
MaxEntities == 2
\* most records a video search returns (pipeline specification)
MaxVideos == 2
\* most records a photo search returns (pipeline specification)
MaxPhotos == 1
\* most records a video search returns in the workflow specification, whose
\* selection ledger grows with the factorial of the media on offer; that
\* specification follows two entities at most, with one photo each at most
WorkflowVideos == 1
\* longest ledger handed to the export compiler in the compiler specification
CompileItems == 2
\* longest ledger handed to the bundle packager in the packager specification
PackageItems == 3
\* most records a search returns in the slicing specification: one more than
\* the searches keep
MaxRecords == 6

(* Program constants *)

\* .slice(0, 5)
TopN == 5

----------------------------------------------------------------------------
(* Values *)

NULL == "null"
Token == "token"
\* '' as a sequence of pieces; every error message and every text is a sequence
Empty == <<>>

Kinds == {"video", "photo"}

CollectionKeys == <<"billboard", "wwd", "rollingStone", "hollywoodReporter", "variety">>

COLLECTION_CODES ==
    [billboard |-> "blb", wwd |-> "wom", rollingStone |-> "rol",
     hollywoodReporter |-> "tho", variety |-> "vrt"]

\* what the operator can type into the textarea
Scripts == { <<>>, <<" ">>, <<" ", "s", " ">> }

\* String.prototype.trim
RECURSIVE TrimLeft(_)
TrimLeft(s) ==
    IF s = <<>> THEN <<>>
    ELSE IF Head(s) = " " THEN TrimLeft(Tail(s)) ELSE s

RECURSIVE TrimRight(_)
TrimRight(s) ==
    IF s = <<>> THEN <<>>
    ELSE IF s[Len(s)] = " " THEN TrimRight(SubSeq(s, 1, Len(s) - 1)) ELSE s

Trim(s) == TrimRight(TrimLeft(s))

Persons ==
    { [name |-> "A", searchTerm |-> "A ctx"],
      [name |-> "B", searchTerm |-> "B ctx"] }

\* Sequences over S of length lo..hi
SeqsOf(S, lo, hi) == UNION { [1..n -> S] : n \in lo..hi }

\* the arrays of Person the model's text can parse to; names may repeat, and
\* up to the renaming of the persons the first one is A
EntityLists ==
    { l \in SeqsOf(Persons, 0, MaxEntities) : Len(l) > 0 => l[1].name = "A" }

Min(a, b) == IF a < b THEN a ELSE b

\* a || b on strings: '' is falsy
OrElse(a, b) == IF a # Empty THEN a ELSE b

----------------------------------------------------------------------------
(* The provider: records as the gateway returns them *)

\* display_sizes of record n of a kind; every second record has no "comp" rendition
DisplaySizes(kind, n) ==
    LET base == << [name |-> "thumb", uri |-> <<kind, n, "thumb">>],
                   [name |-> "preview", uri |-> <<kind, n, "preview">>] >>
    IN  IF n % 2 = 1
        THEN Append(base, [name |-> "comp", uri |-> <<kind, n, "comp">>])
        ELSE base

\* ids are unique within a kind only: video n and photo n carry the same id
ProviderRecord(kind, n) ==
    [id |-> n,
     title |-> IF n % 2 = 1 THEN <<"t">> ELSE <<"t", "\"">>,
     date_created |-> n,
     display_sizes |-> DisplaySizes(kind, n)]

\* the first n records the provider has for a kind
ProviderRecords(kind, n) == [i \in 1..n |-> ProviderRecord(kind, i)]

\* the bodies of the successful responses of a kind with max records at most
OkBodies(kind, max) == { ProviderRecords(kind, n) : n \in 0..max }

Statuses == {401, 500}

\* the error payloads of the provider, which the gateway forwards as they are
Payloads == { <<"ErrorA">>, <<"ErrorB">> }

\* a fetch of the gateway that throws or answers with a non-ok status and
\* the provider's payload
FailedOutcomes ==
    { [type |-> "network", status |-> 0, body |-> <<>>] }
    \cup { [type |-> "status", status |-> s, body |-> p] : s \in Statuses, p \in Payloads }

\* what a fetch of the gateway can end in
Outcomes(kind, max) ==
    FailedOutcomes
    \cup { [type |-> "ok", status |-> 200, body |-> b] : b \in OkBodies(kind, max) }

\* display_sizes?.find(size => size.name === name)?.uri || ''
FindUri(sizes, name) ==
    LET m == SelectSeq(sizes, LAMBDA sz : sz.name = name)
    IN  IF m = <<>> THEN Empty ELSE Head(m).uri

\* one provider record as a GettyMedia
NormalizeMedia(rec) ==
    [id |-> rec.id,
     title |-> rec.title,
     thumbnailUrl |-> FindUri(rec.display_sizes, "thumb"),
     previewUrl |-> FindUri(rec.display_sizes, "preview"),
     compUrl |-> OrElse(FindUri(rec.display_sizes, "comp"),
                        FindUri(rec.display_sizes, "preview")),
     dateCreated |-> rec.date_created]

\* TopMedia without .slice(0, 5)
TopMedia_all(records) ==
    IF Len(records) = 0 THEN <<>>
    ELSE [i \in 1..Len(records) |-> NormalizeMedia(records[i])]

\* the value searchGettyVideos / searchGettyPhotos returns for an ok body
TopMedia(records) ==
    IF Len(records) = 0 THEN <<>>
    ELSE [i \in 1..Min(TopN, Len(records)) |-> NormalizeMedia(records[i])]

\* join(',')
RECURSIVE JoinCodes(_)
JoinCodes(codes) ==
    IF codes = <<>> THEN <<>>
    ELSE IF Len(codes) = 1 THEN codes
    ELSE <<Head(codes), ",">> \o JoinCodes(Tail(codes))

\* getActiveCollectionCodes returning every code whatever the toggles
getActiveCollectionCodes_all(coll) ==
    <<JoinCodes([i \in 1..Len(CollectionKeys) |-> COLLECTION_CODES[CollectionKeys[i]]])>>

\* getActiveCollectionCodes of a collections object: <<>> for null, else the
\* joined string as the one element
getActiveCollectionCodes(coll) ==
    LET activeKeys == SelectSeq(CollectionKeys, LAMBDA k : coll[k])
        activeCodes == [i \in 1..Len(activeKeys) |-> COLLECTION_CODES[activeKeys[i]]]
    IN  IF Len(activeCodes) > 0 THEN <<JoinCodes(activeCodes)>> ELSE <<>>

\* the URLSearchParams a search sends for searchTerm under a filter
SearchParams(searchTerm, pmcarc, coll) ==
    LET phrase == IF pmcarc THEN <<searchTerm, " PMCARC">> ELSE <<searchTerm>>
        collectionCodes == getActiveCollectionCodes(coll)
    IN  << <<"phrase", phrase>>,
           <<"page", <<"1">> >>,
           <<"page_size", <<"30">> >>,
           <<"fields", <<"id,title,thumb,preview,comp,date_created">> >>,
           <<"sort_order", <<"most_popular">> >> >>
        \o (IF collectionCodes # <<>>
            THEN << <<"collection_codes", collectionCodes[1]>> >>
            ELSE <<>>)

----------------------------------------------------------------------------
(* The selection ledger: the updaters passed to setSelectedItems *)

\* FileName with the video extension for both kinds
FileName_mp4(id, type) == <<id, "mp4">>

\* `${media.id}.${type === 'video' ? 'mp4' : 'jpg'}`
FileName(id, type) == <<id, IF type = "video" THEN "mp4" ELSE "jpg">>

SelectedItem(personIndex, personName, media, type) ==
    [personIndex |-> personIndex,
     personName |-> personName,
     mediaId |-> media.id,
     mediaType |-> type,
     compUrl |-> media.compUrl,
     fileName |-> FileName(media.id, type)]

\* prev.filter((_, index) => index !== k)
RemoveAt(prev, k) ==
    [i \in 1..(Len(prev) - 1) |-> IF i < k THEN prev[i] ELSE prev[i + 1]]

\* prev.findIndex(item => item.personIndex === personIndex && item.mediaId === mediaId),
\* 0 when there is none
FindIndex(prev, personIndex, mediaId) ==
    LET hits == { i \in 1..Len(prev) :
                    prev[i].personIndex = personIndex /\ prev[i].mediaId = mediaId }
    IN  IF hits = {} THEN 0 ELSE CHOOSE i \in hits : \A j \in hits : i <= j

\* toggleSelectionUpdate storing the 1-based position of the result set
toggleSelectionUpdate_oneBased(prev, personIndex, personName, media, type) ==
    LET existingIndex == FindIndex(prev, personIndex + 1, media.id)
    IN  IF existingIndex >= 1
        THEN RemoveAt(prev, existingIndex)
        ELSE Append(prev, SelectedItem(personIndex + 1, personName, media, type))

toggleSelectionUpdate(prev, personIndex, personName, media, type) ==
    LET existingIndex == FindIndex(prev, personIndex, media.id)
    IN  IF existingIndex >= 1
        THEN RemoveAt(prev, existingIndex)
        ELSE Append(prev, SelectedItem(personIndex, personName, media, type))

\* selectAllUpdate without the removal of the existing Selections
selectAllUpdate_append(prev, personIndex, personName, items, type) ==
    prev \o [i \in 1..Len(items) |-> SelectedItem(personIndex, personName, items[i], type)]

\* selectAllUpdate with a filter on the kind alone
selectAllUpdate_anyEntity(prev, personIndex, personName, items, type) ==
    LET selections ==
            [i \in 1..Len(items) |-> SelectedItem(personIndex, personName, items[i], type)]
        filtered ==
            SelectSeq(prev, LAMBDA item : item.mediaType # type)
    IN  filtered \o selections

\* selectAllVideos / selectAllPhotos
selectAllUpdate(prev, personIndex, personName, items, type) ==
    LET selections ==
            [i \in 1..Len(items) |-> SelectedItem(personIndex, personName, items[i], type)]
        filtered ==
            SelectSeq(prev, LAMBDA item :
                ~(item.personIndex = personIndex /\ item.mediaType = type))
    IN  filtered \o selections

\* deselectAllUpdate removing the Selections of both kinds of the entity
deselectAllUpdate_bothKinds(prev, personIndex, type) ==
    SelectSeq(prev, LAMBDA item : item.personIndex # personIndex)

\* deselectAllVideos / deselectAllPhotos
deselectAllUpdate(prev, personIndex, type) ==
    SelectSeq(prev, LAMBDA item : ~(item.personIndex = personIndex /\ item.mediaType = type))

\* the media array of a kind in one result set
MediaOf(result, type) == IF type = "video" THEN result.videos ELSE result.photos

\* gettyResults.forEach((result, index) => result.videos.forEach(push))
RECURSIVE AllSelections(_, _, _)
AllSelections(results, type, from) ==
    IF from > Len(results) THEN <<>>
    ELSE LET result == results[from]
             items == MediaOf(result, type)
         IN  [i \in 1..Len(items) |->
                 SelectedItem(from - 1, result.person.name, items[i], type)]
             \o AllSelections(results, type, from + 1)

\* selectAllGlobalUpdate without the removal of the existing Selections
selectAllGlobalUpdate_append(prev, results, type) ==
    prev \o AllSelections(results, type, 1)

\* selectAllVideosGlobal / selectAllPhotosGlobal
selectAllGlobalUpdate(prev, results, type) ==
    SelectSeq(prev, LAMBDA item : item.mediaType # type) \o AllSelections(results, type, 1)

\* deselectAllVideosGlobal / deselectAllPhotosGlobal
deselectAllGlobalUpdate(prev, type) ==
    SelectSeq(prev, LAMBDA item : item.mediaType # type)

\* isSelected
isSelected(items, personIndex, mediaId) ==
    \E i \in 1..Len(items) :
        items[i].personIndex = personIndex /\ items[i].mediaId = mediaId

----------------------------------------------------------------------------
(* The export compiler *)

CsvHeader ==
    <<"Person Name", "Getty File ID", "Media Type", "Title", "Date Created", "Download URL">>

\* `"${title.replace(/"/g, '""')}"`
RECURSIVE DoubleQuotes(_)
DoubleQuotes(title) ==
    IF title = <<>> THEN <<>>
    ELSE (IF Head(title) = "\"" THEN <<"\"", "\"">> ELSE <<Head(title)>>)
         \o DoubleQuotes(Tail(title))

QuoteTitle(title) == <<"\"">> \o DoubleQuotes(title) \o <<"\"">>

\* ResolveMedia looking the id up in the videos and the photos alike
ResolveMedia_anyKind(item, results) ==
    IF item.personIndex + 1 \notin 1..Len(results) THEN <<>>
    ELSE LET found == SelectSeq(results[item.personIndex + 1].videos
                                    \o results[item.personIndex + 1].photos,
                                LAMBDA m : m.id = item.mediaId)
         IN  IF found = <<>> THEN <<>> ELSE <<Head(found)>>

\* the media a selected item resolves to in the result sets: a sequence of 0 or 1
ResolveMedia(item, results) ==
    IF item.personIndex + 1 \notin 1..Len(results) THEN <<>>
    ELSE LET found == SelectSeq(MediaOf(results[item.personIndex + 1], item.mediaType),
                                LAMBDA m : m.id = item.mediaId)
         IN  IF found = <<>> THEN <<>> ELSE <<Head(found)>>

CsvRow(item, media) ==
    <<item.personName, media.id, item.mediaType, QuoteTitle(media.title),
      <<"localeDate", media.dateCreated>>, media.compUrl>>

\* the rows selectedItems.forEach appends
RECURSIVE CsvRows(_, _)
CsvRows(items, results) ==
    IF items = <<>> THEN <<>>
    ELSE LET media == ResolveMedia(Head(items), results)
         IN  (IF media = <<>> THEN <<>> ELSE <<CsvRow(Head(items), media[1])>>)
             \o CsvRows(Tail(items), results)

\* csvText of handleCompileExport
CompileCsv(items, results) == <<CsvHeader>> \o CsvRows(items, results)

----------------------------------------------------------------------------
(* Initial state: the values passed to useState, the token effect scheduled *)

NoSearch ==
    [pc |-> "idle", people |-> <<>>, pmcarc |-> TRUE, coll |-> [k \in {} |-> TRUE],
     idx |-> 0, videos |-> <<>>, results |-> <<>>, delays |-> 0,
     returned |-> <<>>]

\* no packaging run yet
NoDownload == [pc |-> "idle", items |-> <<>>, outcomes |-> <<>>, zip |-> {},
               logged |-> <<>>, saved |-> <<>>]

\* a gateway that serves no request
NoGateway == [pc |-> "idle"]

NoOp == [op |-> "none", type |-> "none", personIndex |-> -1, mediaId |-> -1]

Init ==
    /\ script = Empty
    /\ shotlist = <<>>
    /\ gettyResults = <<>>
    /\ currentStep = 1
    /\ isLoading = FALSE
    /\ error = Empty
    /\ accessToken = NULL
    /\ exportText = Empty
    /\ selectedItems = <<>>
    /\ collections = [billboard |-> TRUE, wwd |-> TRUE, rollingStone |-> TRUE,
                      hollywoodReporter |-> TRUE, variety |-> TRUE]
    /\ usePMCARC = TRUE
    /\ tokenPc = "pending"
    /\ genPc = "idle"
    /\ search = NoSearch
    /\ inFlight = {}
    /\ requests = <<>>
    /\ lastOp = NoOp
    /\ isDownloading = FALSE
    /\ download = NoDownload
    /\ gateway = NoGateway

----------------------------------------------------------------------------
(* The token effect, lines 207-243 *)

\* the token endpoint answers with an access_token
getAccessTokenOk ==
    /\ tokenPc = "pending"
    /\ tokenPc' = "done"
    /\ accessToken' = Token
    /\ UNCHANGED <<workflowVars, filterVars, ledgerVars, searchVars, genPc, pkgVars, gateway>>

\* the token request fails, answers non-ok or carries no access_token
getAccessTokenFail ==
    /\ tokenPc = "pending"
    /\ tokenPc' = "done"
    /\ error' = <<"Failed to get access token">>
    /\ UNCHANGED <<script, shotlist, gettyResults, currentStep, isLoading, accessToken,
                   filterVars, ledgerVars, searchVars, genPc, pkgVars, gateway>>

----------------------------------------------------------------------------
(* Step 1: the script, lines 246-252 and 765-781 *)

\* onChange of the textarea, which is disabled once currentStep > 1
setScriptInput(text) ==
    /\ currentStep = 1
    /\ script' = text
    /\ UNCHANGED <<shotlist, gettyResults, currentStep, isLoading, error, accessToken,
                   filterVars, ledgerVars, searchVars, tokenPc, genPc, pkgVars, gateway>>

\* handleScriptSubmit with the form left active after step 1
handleScriptSubmit_anyStep ==
    /\ Trim(script) # Empty
    /\ currentStep' = 2
    /\ error' = Empty
    /\ UNCHANGED <<script, shotlist, gettyResults, isLoading, accessToken,
                   filterVars, ledgerVars, searchVars, tokenPc, genPc, pkgVars, gateway>>

\* the submit button is rendered at step 1 only and disabled for a blank script
handleScriptSubmit ==
    /\ currentStep = 1
    /\ Trim(script) # Empty
    /\ currentStep' = 2
    /\ error' = Empty
    /\ UNCHANGED <<script, shotlist, gettyResults, isLoading, accessToken,
                   filterVars, ledgerVars, searchVars, tokenPc, genPc, pkgVars, gateway>>

----------------------------------------------------------------------------
(* Step 2: entity extraction, lines 255-296 and 786-797 *)

\* what the generative model's call can end in: the call throws, or it returns
\* a text that is no JSON, a JSON value that is no array, or an array
ModelOutcomes(lists) ==
    { [type |-> "throw", people |-> <<>>],
      [type |-> "badjson", people |-> <<>>],
      [type |-> "nonarray", people |-> <<>>] }
    \cup { [type |-> "array", people |-> l] : l \in lists }

\* the Generate Shotlist button: rendered while the shotlist is empty
handleGenerateShotlist ==
    /\ currentStep >= 2
    /\ shotlist = <<>>
    /\ ~isLoading
    /\ isLoading' = TRUE
    /\ error' = Empty
    /\ genPc' = "calling"
    /\ UNCHANGED <<script, shotlist, gettyResults, currentStep, accessToken,
                   filterVars, ledgerVars, searchVars, tokenPc, pkgVars, gateway>>

\* generateContentReturns without the check of people.length
generateContentReturns_acceptEmpty(out) ==
    /\ genPc = "calling"
    /\ genPc' = "idle"
    /\ isLoading' = FALSE
    /\ IF out.type = "array"
       THEN /\ shotlist' = out.people
            /\ currentStep' = 3
            /\ UNCHANGED error
       ELSE /\ error' = (CASE out.type = "throw" -> <<"Failed to generate shotlist">>
                           [] out.type = "badjson" -> <<"SyntaxError">>
                           [] OTHER -> <<"No people found in script">>)
            /\ UNCHANGED <<shotlist, currentStep>>
    /\ UNCHANGED <<script, gettyResults, accessToken,
                   filterVars, ledgerVars, searchVars, tokenPc, pkgVars, gateway>>

\* the continuation after await model.generateContent, with its catch and finally
generateContentReturns(out) ==
    /\ genPc = "calling"
    /\ genPc' = "idle"
    /\ isLoading' = FALSE
    /\ IF out.type = "array" /\ Len(out.people) > 0
       THEN /\ shotlist' = out.people
            /\ currentStep' = 3
            /\ UNCHANGED error
       ELSE /\ error' = (CASE out.type = "throw" -> <<"Failed to generate shotlist">>
                           [] out.type = "badjson" -> <<"SyntaxError">>
                           [] OTHER -> <<"No people found in script">>)
            /\ UNCHANGED <<shotlist, currentStep>>
    /\ UNCHANGED <<script, gettyResults, accessToken,
                   filterVars, ledgerVars, searchVars, tokenPc, pkgVars, gateway>>

----------------------------------------------------------------------------
(* Step 3: the search aggregator, lines 299-445 and 814-911 *)

\* Request with the entity's searchTerm as the phrase
Request_searchTerm(run, type) ==
    [personIndex |-> run.idx - 1,
     type |-> type,
     params |-> SearchParams(run.people[run.idx].searchTerm, run.pmcarc, run.coll),
     delays |-> run.delays]

\* Request reading the filter state of the latest render
Request_liveFilter(run, type) ==
    [personIndex |-> run.idx - 1,
     type |-> type,
     params |-> SearchParams(run.people[run.idx].name, usePMCARC, collections),
     delays |-> run.delays]

\* the request searchGettyVideos / searchGettyPhotos sends for entity idx of a run
Request(run, type) ==
    [personIndex |-> run.idx - 1,
     type |-> type,
     params |-> SearchParams(run.people[run.idx].name, run.pmcarc, run.coll),
     delays |-> run.delays]

\* SearchControlsRendered with the controls left in place once there are results
SearchControlsRendered_always ==
    currentStep >= 3 /\ Len(shotlist) > 0

\* the search controls are rendered while gettyResults is empty
SearchControlsRendered ==
    currentStep >= 3 /\ Len(shotlist) > 0 /\ Len(gettyResults) = 0

\* handleSearchGetty sending the video and the photo request of an entity together
handleSearchGetty_parallel ==
    /\ SearchControlsRendered
    /\ ~isLoading
    /\ accessToken # NULL
    /\ isLoading' = TRUE
    /\ error' = Empty
    /\ LET run == [pc |-> "video", people |-> shotlist, pmcarc |-> usePMCARC,
                   coll |-> collections, idx |-> 1, videos |-> <<>>,
                   results |-> <<>>, delays |-> 0,
                   returned |-> <<>>]
       IN  /\ search' = run
           /\ inFlight' = {Request(run, "video"), Request(run, "photo")}
           /\ requests' = <<Request(run, "video")>>
    /\ UNCHANGED <<script, shotlist, gettyResults, currentStep, accessToken,
                   filterVars, ledgerVars, tokenPc, genPc, pkgVars, gateway>>

\* SearchGetty without the token check of lines 300-303
SearchGetty_noTokenCheck ==
    /\ isLoading' = TRUE
    /\ error' = Empty
    /\ LET run == [pc |-> "video", people |-> shotlist, pmcarc |-> usePMCARC,
                   coll |-> collections, idx |-> 1, videos |-> <<>>,
                   results |-> <<>>, delays |-> 0,
                   returned |-> <<>>]
       IN  /\ search' = run
           /\ inFlight' = {Request(run, "video")}
           /\ requests' = <<Request(run, "video")>>
    /\ UNCHANGED <<script, shotlist, gettyResults, currentStep, accessToken,
                   filterVars, ledgerVars, tokenPc, genPc, pkgVars, gateway>>

\* the body of handleSearchGetty up to its first await: without a token it
\* sets the error and returns; else the video request of the first entity is sent
SearchGetty ==
    /\ IF accessToken = NULL
       THEN /\ error' = <<"Getty API not initialized">>
            /\ UNCHANGED <<isLoading, searchVars>>
       ELSE /\ isLoading' = TRUE
            /\ error' = Empty
            /\ LET run == [pc |-> "video", people |-> shotlist, pmcarc |-> usePMCARC,
                           coll |-> collections, idx |-> 1, videos |-> <<>>,
                           results |-> <<>>, delays |-> 0,
                           returned |-> <<>>]
               IN  /\ search' = run
                   /\ inFlight' = {Request(run, "video")}
                   /\ requests' = <<Request(run, "video")>>
    /\ UNCHANGED <<script, shotlist, gettyResults, currentStep, accessToken,
                   filterVars, ledgerVars, tokenPc, genPc, pkgVars, gateway>>

\* the Search button, disabled while loading or without a token
handleSearchGetty ==
    /\ SearchControlsRendered
    /\ ~isLoading
    /\ accessToken # NULL
    /\ SearchGetty

\* handleSearchGetty run while the token is missing, which the disabled
\* button does not offer
handleSearchGettyNoToken ==
    /\ SearchControlsRendered
    /\ accessToken = NULL
    /\ SearchGetty

\* SearchThrows keeping the result sets collected before the failure
SearchThrows_partial(message) ==
    /\ error' = message
    /\ isLoading' = FALSE
    /\ search' = NoSearch
    /\ gettyResults' = search.results
    /\ UNCHANGED <<script, shotlist, currentStep, requests>>

\* catch and finally of handleSearchGetty
SearchThrows(message) ==
    /\ error' = message
    /\ isLoading' = FALSE
    /\ search' = NoSearch
    /\ UNCHANGED <<script, shotlist, gettyResults, currentStep, requests>>

\* PushResult leaving out an entity without media
PushResult_skipEmpty(results, person, videos, photos) ==
    IF videos = <<>> /\ photos = <<>>
    THEN results
    ELSE Append(results, [person |-> person, videos |-> videos, photos |-> photos])

\* results.push({ person, videos, photos })
PushResult(results, person, videos, photos) ==
    Append(results, [person |-> person, videos |-> videos, photos |-> photos])

\* the video search of the current entity returns; the photo search is sent
videoSearchReturns(out) ==
    /\ search.pc = "video"
    /\ IF out.type = "ok"
       THEN LET run == [search EXCEPT !.pc = "photo", !.videos = TopMedia(out.body),
                                      !.returned = Append(@, Len(out.body))]
            IN  /\ search' = run
                /\ inFlight' = (inFlight \ {Request(search, "video")})
                                   \cup {Request(run, "photo")}
                /\ requests' = Append(requests, Request(run, "photo"))
                /\ UNCHANGED workflowVars
       ELSE /\ inFlight' = inFlight \ {Request(search, "video")}
            /\ SearchThrows(IF out.type = "status"
                            THEN <<"Getty video search failed: ", ToString(out.status)>>
                            ELSE <<"Failed to fetch">>)
    /\ UNCHANGED <<accessToken, filterVars, ledgerVars, tokenPc, genPc, pkgVars, gateway>>

\* the photo search of the current entity returns; the result set is pushed
\* and the delay starts
photoSearchReturns(out) ==
    /\ search.pc = "photo"
    /\ inFlight' = inFlight \ {Request(search, "photo")}
    /\ IF out.type = "ok"
       THEN /\ search' = [search EXCEPT
                            !.pc = "delay",
                            !.videos = <<>>,
                            !.returned = Append(@, Len(out.body)),
                            !.results = PushResult(search.results,
                                search.people[search.idx], search.videos,
                                TopMedia(out.body))]
            /\ UNCHANGED <<workflowVars, requests>>
       ELSE SearchThrows(IF out.type = "status"
                         THEN <<"Getty photo search failed: ", ToString(out.status)>>
                         ELSE <<"Failed to fetch">>)
    /\ UNCHANGED <<accessToken, filterVars, ledgerVars, tokenPc, genPc, pkgVars, gateway>>

\* await delay(1000) is over: the next entity's video search is sent, or the
\* loop is over and the results are published
delayElapses ==
    /\ search.pc = "delay"
    /\ IF search.idx < Len(search.people)
       THEN LET run == [search EXCEPT !.pc = "video", !.idx = search.idx + 1,
                                      !.delays = search.delays + 1]
            IN  /\ search' = run
                /\ inFlight' = inFlight \cup {Request(run, "video")}
                /\ requests' = Append(requests, Request(run, "video"))
                /\ UNCHANGED workflowVars
       ELSE /\ gettyResults' = search.results
            /\ currentStep' = 4
            /\ isLoading' = FALSE
            /\ search' = NoSearch
            /\ UNCHANGED <<script, shotlist, error, inFlight, requests>>
    /\ UNCHANGED <<accessToken, filterVars, ledgerVars, tokenPc, genPc, pkgVars, gateway>>

\* the collection checkboxes
toggleCollection(collectionKey) ==
    /\ SearchControlsRendered
    /\ collections' = [collections EXCEPT ![collectionKey] = ~collections[collectionKey]]
    /\ UNCHANGED <<workflowVars, accessToken, usePMCARC, ledgerVars, searchVars,
                   tokenPc, genPc, pkgVars, gateway>>

\* the Select All / Deselect All collection buttons
toggleAllCollections(checked) ==
    /\ SearchControlsRendered
    /\ collections' = [billboard |-> checked, wwd |-> checked, rollingStone |-> checked,
                       hollywoodReporter |-> checked, variety |-> checked]
    /\ UNCHANGED <<workflowVars, accessToken, usePMCARC, ledgerVars, searchVars,
                   tokenPc, genPc, pkgVars, gateway>>

\* the PMCARC checkbox
setUsePMCARCInput(checked) ==
    /\ SearchControlsRendered
    /\ usePMCARC' = checked
    /\ UNCHANGED <<workflowVars, accessToken, collections, ledgerVars, searchVars,
                   tokenPc, genPc, pkgVars, gateway>>

----------------------------------------------------------------------------
(* Step 4: the selection handlers, lines 569-703 and 913-1060 *)

\* the per-entity result grids replace the search controls once there are results
ResultsRendered ==
    currentStep >= 3 /\ Len(shotlist) > 0 /\ Len(gettyResults) > 0

\* the global controls, the download and the export sections
SelectionControlsRendered ==
    currentStep >= 4 /\ Len(gettyResults) > 0

\* SetSelectedItems without the effect on [selectedItems]
SetSelectedItems_noEffect(next, op) ==
    /\ selectedItems' = next
    /\ lastOp' = op
    /\ UNCHANGED <<workflowVars, accessToken, filterVars, searchVars, tokenPc, genPc,
                   exportText, pkgVars, gateway>>

\* setSelectedItems(next) followed by the effect on [selectedItems], which
\* clears the export text (lines 201-204)
SetSelectedItems(next, op) ==
    /\ selectedItems' = next
    /\ exportText' = Empty
    /\ lastOp' = op
    /\ UNCHANGED <<workflowVars, accessToken, filterVars, searchVars, tokenPc, genPc, pkgVars, gateway>>

\* the checkbox of media k of a kind in the grid of entity personIndex
toggleSelection(personIndex, type, k) ==
    /\ ResultsRendered
    /\ personIndex + 1 \in 1..Len(gettyResults)
    /\ LET result == gettyResults[personIndex + 1]
       IN  /\ k \in 1..Len(MediaOf(result, type))
           /\ SetSelectedItems(
                toggleSelectionUpdate(selectedItems, personIndex, result.person.name,
                                      MediaOf(result, type)[k], type),
                [op |-> "toggle", type |-> type, personIndex |-> personIndex,
                 mediaId |-> MediaOf(result, type)[k].id])

\* Select All Videos / Select All Photos of one entity
selectAllOfKind(personIndex, type) ==
    /\ ResultsRendered
    /\ personIndex + 1 \in 1..Len(gettyResults)
    /\ LET result == gettyResults[personIndex + 1]
       IN  SetSelectedItems(
                selectAllUpdate(selectedItems, personIndex, result.person.name,
                                MediaOf(result, type), type),
                [op |-> "selectAll", type |-> type, personIndex |-> personIndex,
                 mediaId |-> -1])

\* Deselect All Videos / Deselect All Photos of one entity
deselectAllOfKind(personIndex, type) ==
    /\ ResultsRendered
    /\ personIndex + 1 \in 1..Len(gettyResults)
    /\ SetSelectedItems(
            deselectAllUpdate(selectedItems, personIndex, type),
            [op |-> "deselectAll", type |-> type, personIndex |-> personIndex,
             mediaId |-> -1])

\* selectAllVideosGlobal / selectAllPhotosGlobal
selectAllGlobal(type) ==
    /\ SelectionControlsRendered
    /\ SetSelectedItems(
            selectAllGlobalUpdate(selectedItems, gettyResults, type),
            [op |-> "selectAllGlobal", type |-> type, personIndex |-> -1, mediaId |-> -1])

\* deselectAllVideosGlobal / deselectAllPhotosGlobal
deselectAllGlobal(type) ==
    /\ SelectionControlsRendered
    /\ SetSelectedItems(
            deselectAllGlobalUpdate(selectedItems, type),
            [op |-> "deselectAllGlobal", type |-> type, personIndex |-> -1,
             mediaId |-> -1])

----------------------------------------------------------------------------
(* Step 5: the export, lines 448-480 and 1079-1122 *)

\* CompileExport without the check for zero selections of lines 449-452
CompileExport_noPrecondition ==
    /\ exportText' = CompileCsv(selectedItems, gettyResults)
    /\ currentStep' = 5
    /\ UNCHANGED error
    /\ UNCHANGED <<script, shotlist, gettyResults, isLoading, accessToken, filterVars,
                   selectedItems, lastOp, searchVars, tokenPc, genPc, pkgVars, gateway>>

\* the body of handleCompileExport
CompileExport ==
    /\ IF Len(selectedItems) = 0
       THEN /\ error' = <<"No items selected. Please select videos or photos to export.">>
            /\ UNCHANGED <<exportText, currentStep>>
       ELSE /\ exportText' = CompileCsv(selectedItems, gettyResults)
            /\ currentStep' = 5
            /\ UNCHANGED error
    /\ UNCHANGED <<script, shotlist, gettyResults, isLoading, accessToken, filterVars,
                   selectedItems, lastOp, searchVars, tokenPc, genPc, pkgVars, gateway>>

\* Generate CSV (disabled without selections) or, once there is a text, Regenerate CSV
handleCompileExport ==
    /\ SelectionControlsRendered
    /\ exportText = Empty => Len(selectedItems) > 0
    /\ CompileExport

\* handleCompileExport run with zero selections, which the disabled
\* Generate CSV button does not offer
handleCompileExportEmpty ==
    /\ SelectionControlsRendered
    /\ Len(selectedItems) = 0
    /\ CompileExport

----------------------------------------------------------------------------
(* Step 6: start over, lines 506-514 and 1124-1132 *)

\* handleClear without setSelectedItems([])
handleClear_keepSelection ==
    /\ currentStep >= 5
    /\ script' = Empty
    /\ shotlist' = <<>>
    /\ gettyResults' = <<>>
    /\ exportText' = Empty
    /\ currentStep' = 1
    /\ error' = Empty
    /\ UNCHANGED <<selectedItems, lastOp>>
    /\ UNCHANGED <<isLoading, accessToken, filterVars, searchVars, tokenPc, genPc, pkgVars, gateway>>

\* handleClear with its button rendered at every step
handleClear_anyStep ==
    /\ script' = Empty
    /\ shotlist' = <<>>
    /\ gettyResults' = <<>>
    /\ exportText' = Empty
    /\ currentStep' = 1
    /\ error' = Empty
    /\ selectedItems' = <<>>
    /\ lastOp' = NoOp
    /\ UNCHANGED <<isLoading, accessToken, filterVars, searchVars, tokenPc, genPc, pkgVars, gateway>>

\* handleClear without the setCurrentStep(1) of line 511
handleClear_keepStep ==
    /\ currentStep >= 5
    /\ script' = Empty
    /\ shotlist' = <<>>
    /\ gettyResults' = <<>>
    /\ exportText' = Empty
    /\ error' = Empty
    /\ selectedItems' = <<>>
    /\ lastOp' = NoOp
    /\ UNCHANGED <<currentStep, isLoading, accessToken, filterVars, searchVars, tokenPc,
                   genPc, pkgVars, gateway>>

\* Clear All Results, rendered from step 5 on; setSelectedItems([]) runs the
\* effect on [selectedItems] as well
handleClear ==
    /\ currentStep >= 5
    /\ script' = Empty
    /\ shotlist' = <<>>
    /\ gettyResults' = <<>>
    /\ exportText' = Empty
    /\ currentStep' = 1
    /\ error' = Empty
    /\ selectedItems' = <<>>
    /\ lastOp' = NoOp
    /\ UNCHANGED <<isLoading, accessToken, filterVars, searchVars, tokenPc, genPc, pkgVars, gateway>>

----------------------------------------------------------------------------
(* The bundle packager, lines 706-751 and 1062-1073 *)

\* `${item.mediaType}s`
KindFolder(type) == IF type = "video" THEN "videos" ELSE "photos"

\* `${personName}/${item.mediaType}s` + `/${item.fileName}`
ZipPath(personName, item) == <<personName, KindFolder(item.mediaType), item.fileName>>

\* the keys of groupedByPerson in insertion order: each name once, by first use
RECURSIVE PersonNames(_, _)
PersonNames(items, seen) ==
    IF items = <<>> THEN <<>>
    ELSE IF Head(items).personName \in seen
         THEN PersonNames(Tail(items), seen)
         ELSE <<Head(items).personName>>
              \o PersonNames(Tail(items), seen \cup {Head(items).personName})

\* the order in which the nested for loops over Object.entries(groupedByPerson)
\* visit the items, each with the key of its group
GroupedByPerson(items) ==
    LET names == PersonNames(items, {})
        group(name) == SelectSeq(items, LAMBDA item : item.personName = name)
        visit[n \in 0..Len(names)] ==
            IF n = 0 THEN <<>>
            ELSE visit[n - 1]
                 \o [i \in 1..Len(group(names[n])) |->
                        [personName |-> names[n], item |-> group(names[n])[i]]]
    IN  visit[Len(names)]

\* zip.file(path, blob): an entry at the same path is replaced
ZipFile(zip, path, blob) ==
    { e \in zip : e.path # path } \cup { [path |-> path, blob |-> blob] }

\* what fetch(item.compUrl) followed by response.blob() can end in: a body
\* with an ok status, a body with another status, or a rejection
FetchOutcomes == {"ok", "status", "throw"}

\* DownloadSelectedAsZip with setExportText('') beside setError('')
DownloadSelectedAsZip_clearsExport ==
    IF Len(selectedItems) = 0
    THEN UNCHANGED vars
    ELSE /\ isDownloading' = TRUE
         /\ error' = Empty
         /\ exportText' = Empty
         /\ download' = [pc |-> "fetching", items |-> GroupedByPerson(selectedItems),
                         outcomes |-> <<>>, zip |-> {}, logged |-> <<>>, saved |-> <<>>]
         /\ UNCHANGED <<script, shotlist, gettyResults, currentStep, isLoading,
                        accessToken, filterVars, selectedItems, lastOp, searchVars,
                        tokenPc, genPc, gateway>>

\* the body of downloadSelectedAsZip up to its first await
DownloadSelectedAsZip ==
    IF Len(selectedItems) = 0
    THEN UNCHANGED vars
    ELSE /\ isDownloading' = TRUE
         /\ error' = Empty
         /\ download' = [pc |-> "fetching", items |-> GroupedByPerson(selectedItems),
                         outcomes |-> <<>>, zip |-> {}, logged |-> <<>>, saved |-> <<>>]
         /\ UNCHANGED <<script, shotlist, gettyResults, currentStep, isLoading,
                        accessToken, filterVars, ledgerVars, searchVars, tokenPc, genPc, gateway>>

\* downloadSelectedAsZip with a button that stays enabled while downloading
downloadSelectedAsZip_whileDownloading ==
    /\ SelectionControlsRendered
    /\ Len(selectedItems) > 0
    /\ DownloadSelectedAsZip

\* the Download All Selected button, disabled while downloading or without selections
downloadSelectedAsZip ==
    /\ SelectionControlsRendered
    /\ ~isDownloading
    /\ Len(selectedItems) > 0
    /\ DownloadSelectedAsZip

\* fetchReturns leaving the loops at the first rejected fetch
fetchReturns_abort(out) ==
    /\ download.pc = "fetching"
    /\ LET k == Len(download.outcomes) + 1
           entry == download.items[k]
       IN  IF out = "throw"
           THEN /\ download' = [download EXCEPT !.outcomes = Append(@, out), !.pc = "done"]
                /\ error' = <<"Failed to fetch">>
                /\ isDownloading' = FALSE
           ELSE /\ download' =
                    [download EXCEPT
                        !.outcomes = Append(@, out),
                        !.zip = ZipFile(@, ZipPath(entry.personName, entry.item),
                                        [url |-> entry.item.compUrl, ok |-> out = "ok"]),
                        !.pc = IF k = Len(download.items) THEN "generating" ELSE "fetching"]
                /\ UNCHANGED <<error, isDownloading>>
    /\ UNCHANGED <<script, shotlist, gettyResults, currentStep, isLoading,
                   accessToken, filterVars, ledgerVars, searchVars, tokenPc, genPc, gateway>>

\* fetchReturns calling zip.generateAsync right after the first fetch
fetchReturns_firstOnly(out) ==
    /\ download.pc = "fetching"
    /\ LET k == Len(download.outcomes) + 1
           entry == download.items[k]
       IN  download' =
               [download EXCEPT
                   !.outcomes = Append(@, out),
                   !.zip = IF out = "throw" THEN @
                           ELSE ZipFile(@, ZipPath(entry.personName, entry.item),
                                        [url |-> entry.item.compUrl, ok |-> out = "ok"]),
                   !.logged = IF out = "throw" THEN Append(@, entry.item.fileName) ELSE @,
                   !.pc = "generating"]
    /\ UNCHANGED <<workflowVars, accessToken, filterVars, ledgerVars, searchVars,
                   tokenPc, genPc, isDownloading, gateway>>

\* fetchReturns taking the item at the current position from the ledger of
\* the latest render
fetchReturns_liveLedger(out) ==
    /\ download.pc = "fetching"
    /\ LET k == Len(download.outcomes) + 1
           live == GroupedByPerson(selectedItems)
           entry == IF k <= Len(live) THEN live[k] ELSE download.items[k]
       IN  download' =
               [download EXCEPT
                   !.outcomes = Append(@, out),
                   !.zip = IF out = "throw" THEN @
                           ELSE ZipFile(@, ZipPath(entry.personName, entry.item),
                                        [url |-> entry.item.compUrl, ok |-> out = "ok"]),
                   !.logged = IF out = "throw" THEN Append(@, entry.item.fileName) ELSE @,
                   !.pc = IF k = Len(download.items) THEN "generating" ELSE "fetching"]
    /\ UNCHANGED <<workflowVars, accessToken, filterVars, ledgerVars, searchVars,
                   tokenPc, genPc, isDownloading, gateway>>

\* the fetch of the current item ends: its blob is filed in the zip, or the
\* rejection is caught and logged; the next item is fetched, or after the
\* last one zip.generateAsync is called
fetchReturns(out) ==
    /\ download.pc = "fetching"
    /\ LET k == Len(download.outcomes) + 1
           entry == download.items[k]
       IN  download' =
               [download EXCEPT
                   !.outcomes = Append(@, out),
                   !.zip = IF out = "throw" THEN @
                           ELSE ZipFile(@, ZipPath(entry.personName, entry.item),
                                        [url |-> entry.item.compUrl, ok |-> out = "ok"]),
                   !.logged = IF out = "throw" THEN Append(@, entry.item.fileName) ELSE @,
                   !.pc = IF k = Len(download.items) THEN "generating" ELSE "fetching"]
    /\ UNCHANGED <<workflowVars, accessToken, filterVars, ledgerVars, searchVars,
                   tokenPc, genPc, isDownloading, gateway>>

\* generateAsyncReturns with setIsDownloading(false) at the end of the try
\* block instead of in the finally block
generateAsyncReturns_noFinally(ok) ==
    /\ download.pc = "generating"
    /\ IF ok
       THEN /\ download' = [download EXCEPT !.pc = "done", !.saved = Append(@, download.zip)]
            /\ isDownloading' = FALSE
            /\ UNCHANGED error
       ELSE /\ download' = [download EXCEPT !.pc = "done"]
            /\ error' = <<"generateAsync failed">>
            /\ UNCHANGED isDownloading
    /\ UNCHANGED <<script, shotlist, gettyResults, currentStep, isLoading,
                   accessToken, filterVars, ledgerVars, searchVars, tokenPc, genPc, gateway>>

\* zip.generateAsync ends: the blob is handed to saveAs, or the rejection is
\* caught and shown; finally setIsDownloading(false)
generateAsyncReturns(ok) ==
    /\ download.pc = "generating"
    /\ isDownloading' = FALSE
    /\ IF ok
       THEN /\ download' = [download EXCEPT !.pc = "done", !.saved = Append(@, download.zip)]
            /\ UNCHANGED error
       ELSE /\ download' = [download EXCEPT !.pc = "done"]
            /\ error' = <<"generateAsync failed">>
    /\ UNCHANGED <<script, shotlist, gettyResults, currentStep, isLoading,
                   accessToken, filterVars, ledgerVars, searchVars, tokenPc, genPc, gateway>>

----------------------------------------------------------------------------
(* The provider gateways: the express routes of server.js (lines 27-104) and
   the serverless handlers api/getty-videos.js and its photo twin *)

Impls == {"express", "serverless"}

\* the Authorization headers a request can carry: none, a bearer token, another scheme
Authorizations == { <<>>, <<"Bearer ", Token>>, <<"Basic ", "x">> }

\* the query strings of the requests: the ones the application sends under
\* the initial filter, and a bare phrase
Queries ==
    { SearchParams(p.name, TRUE,
                   [billboard |-> TRUE, wwd |-> TRUE, rollingStone |-> TRUE,
                    hollywoodReporter |-> TRUE, variety |-> TRUE]) : p \in Persons }
    \cup { << <<"phrase", <<"A">> >> >> }

\* the requests that reach a handler: app.get routes GET requests only
GatewayRequests(impl) ==
    { [method |-> m, authorization |-> a, query |-> q] :
        m \in (IF impl = "express" THEN {"GET"} ELSE {"GET", "OPTIONS", "POST"}),
        a \in Authorizations, q \in Queries }

\* params.has(key)
HasParam(params, key) == \E i \in 1..Len(params) : params[i][1] = key

\* buildGettyUrl: the endpoint and the query with the two defaults appended
\* where the query does not name them
buildGettyUrl(endpoint, query) ==
    LET withFields ==
            IF HasParam(query, "fields") THEN query
            ELSE Append(query, <<"fields", <<"id,title,thumb,preview,date_created">> >>)
        withSort ==
            IF HasParam(withFields, "sort_order") THEN withFields
            ELSE Append(withFields, <<"sort_order", <<"best_match">> >>)
    IN  [endpoint |-> endpoint, params |-> withSort]

Endpoint(kind) ==
    IF kind = "video" THEN "/search/videos/editorial" ELSE "/search/images/editorial"

\* what the fetch of the provider can end in: a rejection, or a response with
\* a status and a body that is JSON (the records, or an error payload) or is
\* not (a text)
ProviderAnswers(kind) ==
    { [type |-> "network", status |-> 0, json |-> FALSE, body |-> [text |-> <<>>]] }
    \cup { [type |-> "response", status |-> 200, json |-> TRUE,
            body |-> [records |-> ProviderRecords(kind, n)]] : n \in 0..1 }
    \cup { [type |-> "response", status |-> st, json |-> TRUE, body |-> [payload |-> p]] :
            st \in Statuses, p \in Payloads }
    \cup { [type |-> "response", status |-> st, json |-> FALSE,
            body |-> [text |-> <<"<html>">>]] : st \in Statuses \cup {200} }

\* response.ok
IsOk(status) == status \in 200..299

FailedToFetch(kind) ==
    IF kind = "video" THEN "Failed to fetch Getty videos" ELSE "Failed to fetch Getty photos"

\* the response of a handler after its fetch of the provider: response.json()
\* throws on a body that is no JSON, and the catch answers 500
GatewayAnswer(kind, ans) ==
    IF ans.type = "network" \/ ~ans.json
    THEN [status |-> 500, body |-> [error |-> <<FailedToFetch(kind), "details">>]]
    ELSE IF ~IsOk(ans.status)
         THEN [status |-> ans.status, body |-> ans.body]
         ELSE [status |-> 200, body |-> ans.body]

\* a handler takes a request and runs up to its fetch of the provider
gatewayReceives(impl, kind, req) ==
    /\ gateway.pc \in {"idle", "done"}
    /\ gateway' =
          LET served == [impl |-> impl, kind |-> kind, request |-> req]
              done(status, body) ==
                  [pc |-> "done", served |-> served, asked |-> <<>>, answer |-> <<>>,
                   response |-> [status |-> status, body |-> body]]
          IN  IF impl = "serverless" /\ req.method = "OPTIONS"
              THEN done(200, [text |-> <<>>])
              ELSE IF impl = "serverless" /\ req.method # "GET"
              THEN done(405, [error |-> <<"Method not allowed">>])
              ELSE IF req.authorization = <<>> \/ Head(req.authorization) # "Bearer "
              THEN done(401, [error |-> <<"Invalid or missing authorization token">>])
              ELSE [pc |-> "calling", served |-> served,
                    asked |-> << [url |-> buildGettyUrl(Endpoint(kind), req.query),
                                  apiKey |-> "REACT_APP_GETTY_API_KEY",
                                  authorization |-> req.authorization] >>,
                    answer |-> <<>>, response |-> [status |-> 0, body |-> [text |-> <<>>]]]
    /\ UNCHANGED <<workflowVars, accessToken, filterVars, ledgerVars, searchVars,
                   tokenPc, genPc, pkgVars>>

\* the fetch of the provider ends and the handler answers
providerAnswers(ans) ==
    /\ gateway.pc = "calling"
    /\ gateway' = [gateway EXCEPT
                     !.pc = "done",
                     !.answer = <<ans>>,
                     !.response = GatewayAnswer(gateway.served.kind, ans)]
    /\ UNCHANGED <<workflowVars, accessToken, filterVars, ledgerVars, searchVars,
                   tokenPc, genPc, pkgVars>>

----------------------------------------------------------------------------
(* Specifications *)

PersonIndexes == 0..(MaxEntities - 1)
MediaPositions == 1..TopN

\* the selection handlers
LedgerNext ==
    \/ \E i \in PersonIndexes, t \in Kinds, k \in MediaPositions : toggleSelection(i, t, k)
    \/ \E i \in PersonIndexes, t \in Kinds : selectAllOfKind(i, t)
    \/ \E i \in PersonIndexes, t \in Kinds : deselectAllOfKind(i, t)
    \/ \E t \in Kinds : selectAllGlobal(t)
    \/ \E t \in Kinds : deselectAllGlobal(t)

\* the extraction and the search, for the entity lists the model may return
\* and the most records a video and a photo search may return
PipelineNext(lists, maxVideos, maxPhotos) ==
    \/ getAccessTokenOk
    \/ getAccessTokenFail
    \/ \E text \in Scripts : setScriptInput(text)
    \/ handleScriptSubmit
    \/ handleGenerateShotlist
    \/ \E out \in ModelOutcomes(lists) : generateContentReturns(out)
    \/ handleSearchGetty
    \/ \E out \in Outcomes("video", maxVideos) : videoSearchReturns(out)
    \/ \E out \in Outcomes("photo", maxPhotos) : photoSearchReturns(out)
    \/ delayElapses

\* the filter controls; they write collections and usePMCARC only, which a
\* search copies into its requests; the workflow specifications leave the
\* filter at its initial value, the filter specification moves it
FilterNext ==
    \/ \E i \in 1..Len(CollectionKeys) : toggleCollection(CollectionKeys[i])
    \/ \E checked \in BOOLEAN : toggleAllCollections(checked)
    \/ \E checked \in BOOLEAN : setUsePMCARCInput(checked)

\* the entity lists of the workflow specification
WorkflowLists == { l \in EntityLists : Len(l) <= 2 }

\* the workflow: what the operator and the network can do from the script to
\* the export and the reset, under the initial filter; the bundle packager,
\* which reads the ledger and writes isDownloading, error and its own archive
\* only, has its specification below
Next ==
    \/ PipelineNext(WorkflowLists, WorkflowVideos, 1)
    \/ LedgerNext
    \/ handleCompileExport
    \/ handleClear

Spec == Init /\ [][Next]_vars

\* the workflow and the handlers run where their buttons are disabled
HandlersNext ==
    \/ Next
    \/ handleSearchGettyNoToken
    \/ handleCompileExportEmpty

SpecHandlers == Init /\ [][HandlersNext]_vars

\* the entity lists of the filter specification
FilterLists == { l \in EntityLists : Len(l) <= 2 }

\* the extraction and the search under every filter the controls can set,
\* before and while a search runs; a search answers with one video at most
SpecFilter == Init /\ [][PipelineNext(FilterLists, 1, 0) \/ FilterNext]_vars

\* the entity lists of the slicing specification
SingleLists == { l \in EntityLists : Len(l) <= 1 }

\* the extraction and the search of one entity with answers of up to
\* MaxRecords records
SpecSlice == Init /\ [][PipelineNext(SingleLists, MaxRecords, MaxRecords)]_vars

\* the gateways serving one request after the other
GatewayNext ==
    \/ \E impl \in Impls, kind \in Kinds :
          \E req \in GatewayRequests(impl) : gatewayReceives(impl, kind, req)
    \/ \E kind \in Kinds : \E ans \in ProviderAnswers(kind) :
          gateway.pc = "calling" /\ gateway.served.kind = kind /\ providerAnswers(ans)

SpecGateway == Init /\ [][GatewayNext]_vars

\* the bundle packager
PackageNext ==
    \/ downloadSelectedAsZip
    \/ \E out \in FetchOutcomes : fetchReturns(out)
    \/ \E ok \in BOOLEAN : generateAsyncReturns(ok)

\* the result sets a search over a non-empty entity list can publish
ResultSetsOf(people, maxVideos, maxPhotos) ==
    { [i \in 1..Len(people) |->
         [person |-> people[i],
          videos |-> TopMedia(ProviderRecords("video", counts[i][1])),
          photos |-> TopMedia(ProviderRecords("photo", counts[i][2]))]] :
      counts \in [1..Len(people) -> (0..maxVideos) \X (0..maxPhotos)] }

\* Selections as the ledger handlers build them, also for an entity index or
\* a media id that the result sets at hand do not hold
AnySelections(maxId) ==
    { SelectedItem(i, "A", NormalizeMedia(ProviderRecord(t, n)), t) :
        i \in 0..1, t \in Kinds, n \in 1..maxId }

\* the export compiler as a function of its two inputs: any ledger of at most
\* CompileItems Selections against any published result sets
InitCompile ==
    /\ script = <<"s">>
    /\ shotlist \in (WorkflowLists \ {<<>>})
    /\ gettyResults \in ResultSetsOf(shotlist, WorkflowVideos, 1)
    /\ currentStep = 4
    /\ isLoading = FALSE
    /\ error = Empty
    /\ accessToken = Token
    /\ exportText = Empty
    /\ selectedItems \in SeqsOf(AnySelections(WorkflowVideos + 1), 0, CompileItems)
    /\ collections = [billboard |-> TRUE, wwd |-> TRUE, rollingStone |-> TRUE,
                      hollywoodReporter |-> TRUE, variety |-> TRUE]
    /\ usePMCARC = TRUE
    /\ tokenPc = "done"
    /\ genPc = "idle"
    /\ search = NoSearch
    /\ inFlight = {}
    /\ requests = <<>>
    /\ lastOp = NoOp
    /\ isDownloading = FALSE
    /\ download = NoDownload
    /\ gateway = NoGateway

SpecCompile == InitCompile /\ [][CompileExport]_vars

\* the Selections the rendered checkboxes of published result sets can add
SelectionsOf(results) ==
    { SelectedItem(x[1] - 1, results[x[1]].person.name,
                   MediaOf(results[x[1]], x[2])[x[3]], x[2]) :
        x \in { y \in (1..Len(results)) \X Kinds \X MediaPositions :
                    y[3] <= Len(MediaOf(results[y[1]], y[2])) } }

\* the ledgers of at most max Selections the selection handlers can build
\* over published result sets: every order, no Selection twice
LedgersOf(results, max) ==
    { l \in SeqsOf(SelectionsOf(results), 0, max) :
        \A i, j \in 1..Len(l) : l[i] = l[j] => i = j }

\* the bundle packager as a function of the ledger and of the outcome of
\* each fetch: any ledger of at most PackageItems Selections over any
\* published result sets
InitPackage ==
    /\ script = <<"s">>
    /\ shotlist \in (WorkflowLists \ {<<>>})
    /\ gettyResults \in ResultSetsOf(shotlist, WorkflowVideos, 1)
    /\ currentStep = 4
    /\ isLoading = FALSE
    /\ error = Empty
    /\ accessToken = Token
    /\ exportText = Empty
    /\ selectedItems \in LedgersOf(gettyResults, PackageItems)
    /\ collections = [billboard |-> TRUE, wwd |-> TRUE, rollingStone |-> TRUE,
                      hollywoodReporter |-> TRUE, variety |-> TRUE]
    /\ usePMCARC = TRUE
    /\ tokenPc = "done"
    /\ genPc = "idle"
    /\ search = NoSearch
    /\ inFlight = {}
    /\ requests = <<>>
    /\ lastOp = NoOp
    /\ isDownloading = FALSE
    /\ download = NoDownload
    /\ gateway = NoGateway

SpecPackage == InitPackage /\ [][PackageNext]_vars

\* the whole workflow with the bundle packager running beside it: failures
\* of every operation, the handlers behind disabled buttons, the reset while
\* an archive is built; the ledger is moved by the global buttons only
RunsNext ==
    \/ PipelineNext(SingleLists, WorkflowVideos, 1)
    \/ \E t \in Kinds : selectAllGlobal(t)
    \/ \E t \in Kinds : deselectAllGlobal(t)
    \/ handleSearchGettyNoToken
    \/ handleCompileExport
    \/ handleCompileExportEmpty
    \/ handleClear
    \/ PackageNext

SpecRuns == Init /\ [][RunsNext]_vars

\* SpecRuns with the checkboxes of the grids as well: every ledger handler
\* and the reset can run between two fetches of a package run
InterleaveNext ==
    \/ RunsNext
    \/ \E i \in PersonIndexes, t \in Kinds, k \in MediaPositions : toggleSelection(i, t, k)

SpecInterleave == Init /\ [][InterleaveNext]_vars

\* the pending call of the generative model returns or fails
ExtractionStep == \E out \in ModelOutcomes(SingleLists) : generateContentReturns(out)

\* the pending call of a search returns or fails, or its delay elapses
SearchStep ==
    \/ \E out \in Outcomes("video", WorkflowVideos) : videoSearchReturns(out)
    \/ \E out \in Outcomes("photo", 1) : photoSearchReturns(out)
    \/ delayElapses

\* the pending fetch of the packager returns or fails, or the archive is
\* generated or its generation fails
PackageStep ==
    \/ \E out \in FetchOutcomes : fetchReturns(out)
    \/ \E ok \in BOOLEAN : generateAsyncReturns(ok)

\* SpecRuns where no pending call, timer or promise stays pending forever;
\* the operator remains free to press a button or not
SpecRunsFair ==
    /\ SpecRuns
    /\ WF_vars(ExtractionStep)
    /\ WF_vars(SearchStep)
    /\ WF_vars(PackageStep)

\* the extraction and the search alone, up to the publication of the results
SpecPipeline == Init /\ [][PipelineNext(EntityLists, MaxVideos, MaxPhotos)]_vars

----------------------------------------------------------------------------
(* Properties *)

\* the set of the Selections of a ledger
Range(items) == { items[i] : i \in 1..Len(items) }

\* the Selections of one kind, in ledger order
OfKind(items, type) == SelectSeq(items, LAMBDA item : item.mediaType = type)

OtherKind(type) == IF type = "video" THEN "photo" ELSE "video"

\* the arguments the rendered checkboxes pass to toggleSelection
ToggleArgs ==
    { [personIndex |-> i - 1, personName |-> gettyResults[i].person.name,
       media |-> MediaOf(gettyResults[i], t)[k], type |-> t] :
        <<i, t, k>> \in
            { x \in (1..Len(gettyResults)) \X Kinds \X MediaPositions :
                x[3] <= Len(MediaOf(gettyResults[x[1]], x[2])) } }

\* the arguments the rendered per-entity buttons pass to selectAll / deselectAll
BulkArgs ==
    { [personIndex |-> i - 1, personName |-> gettyResults[i].person.name,
       items |-> MediaOf(gettyResults[i], t), type |-> t] :
        <<i, t>> \in (1..Len(gettyResults)) \X Kinds }

Toggle(items, a) ==
    toggleSelectionUpdate(items, a.personIndex, a.personName, a.media, a.type)

SelectAll(items, a) ==
    selectAllUpdate(items, a.personIndex, a.personName, a.items, a.type)

DeselectAll(items, a) == deselectAllUpdate(items, a.personIndex, a.type)

\* C1: in every reachable state the ledger holds at most one Selection per
\* (entityIndex, mediaId) pair.
C1_OnePerPair ==
    \A i, j \in 1..Len(selectedItems) :
        (selectedItems[i].personIndex = selectedItems[j].personIndex
            /\ selectedItems[i].mediaId = selectedItems[j].mediaId) => i = j

\* C2: toggle applied twice in succession with the same arguments returns the
\* ledger to its prior state (here: to the same set of Selections).
C2_ToggleInvolution ==
    \A a \in ToggleArgs :
        Range(Toggle(Toggle(selectedItems, a), a)) = Range(selectedItems)

\* C3: every mutation of the ledger leaves the export text empty, and a
\* non-empty export text is the compilation of the current ledger and result sets.
C3_ExportNeverStale ==
    [][/\ selectedItems' # selectedItems => exportText' = Empty
       /\ exportText' # Empty => exportText' = CompileCsv(selectedItems', gettyResults')]_vars

\* C3 witness: an export was compiled (step 5) and a later selection handler
\* changed the ledger and cleared it.
C3_Witness ==
    /\ currentStep = 5
    /\ exportText = Empty
    /\ lastOp.op = "toggle"
    /\ Len(selectedItems) > 0

\* C4: the step counter stays within 1..6 and never decreases except by the
\* reset, which returns it to 1.
C4_StepMonotone ==
    /\ currentStep \in 1..6
    /\ [][/\ currentStep' \in 1..6
          /\ currentStep' < currentStep => (handleClear /\ currentStep' = 1)]_vars

\* C4 witness: the counter climbs again after a reset (the request log of the
\* earlier search is still there).
C4_Witness ==
    /\ currentStep = 2
    /\ requests # <<>>

\* C5: the reset empties the script, the entity list, the result sets, the
\* ledger and the export text together and sets the step counter to 1.
C5_ResetClearsAll ==
    [][(handleClear \/ currentStep' < currentStep) =>
          /\ script' = Empty
          /\ shotlist' = <<>>
          /\ gettyResults' = <<>>
          /\ selectedItems' = <<>>
          /\ exportText' = Empty
          /\ currentStep' = 1]_vars

\* C5 witness: the state right after a reset (step 1 with the request log of
\* the search that came before it).
C5_Witness ==
    /\ currentStep = 1
    /\ requests # <<>>
    /\ script = Empty
    /\ shotlist = <<>>
    /\ gettyResults = <<>>
    /\ selectedItems = <<>>
    /\ exportText = Empty

\* a provider call of the running search fails
SearchCallFails ==
    \/ \E out \in FailedOutcomes : videoSearchReturns(out)
    \/ \E out \in FailedOutcomes : photoSearchReturns(out)

\* C6: when a provider call fails while entity k is processed, the error is
\* surfaced, the run ends without a request for any entity after k, nothing
\* is published and the step does not reach 4.
C6_FailureAborts ==
    [][SearchCallFails =>
          /\ error' # Empty
          /\ search'.pc = "idle"
          /\ ~isLoading'
          /\ inFlight' = {}
          /\ requests' = requests
          /\ \A j \in 1..Len(requests') : requests'[j].personIndex <= search.idx - 1
          /\ gettyResults' = <<>>
          /\ currentStep' < 4]_vars

\* C6 witness: a run over two entities failed on the first one; the second
\* entity's requests were never sent.
C6_Witness ==
    /\ search.pc = "idle"
    /\ error # Empty
    /\ error[1] \in {"Getty video search failed: ", "Getty photo search failed: ",
                     "Failed to fetch"}
    /\ Len(shotlist) = 2
    /\ Len(requests) \in 1..2
    /\ gettyResults = <<>>
    /\ currentStep = 3

\* C7: a search whose calls all succeed publishes one result set per entity,
\* in entity order, result i holding entity i, also for zero-record responses,
\* which are no error.
C7_OneResultPerEntity ==
    /\ search.pc = "delay" => Len(search.results) = search.idx
    /\ search.pc \in {"video", "photo"} => Len(search.results) = search.idx - 1
    /\ gettyResults # <<>> =>
          /\ Len(gettyResults) = Len(shotlist)
          /\ \A i \in 1..Len(gettyResults) : gettyResults[i].person = shotlist[i]
          /\ currentStep >= 4
          /\ error = Empty

\* C7 witness: published results for two entities, the first with no video
\* and no photo.
C7_Witness ==
    /\ Len(gettyResults) = 2
    /\ gettyResults[1].videos = <<>>
    /\ gettyResults[1].photos = <<>>
    /\ gettyResults[2].videos # <<>>
    /\ currentStep = 4

\* C8: at most one provider request is in flight, an entity's video search
\* answers before its photo search is sent, and the delay after an entity's
\* pair elapses before the next entity's first request.
C8_Sequential ==
    /\ Cardinality(inFlight) <= 1
    /\ search.pc = "delay" => inFlight = {}
    /\ search.pc = "idle" => inFlight = {}
    /\ search.pc \in {"video", "photo"} => inFlight = {requests[Len(requests)]}
    /\ \A j \in 1..Len(requests) :
          /\ requests[j].personIndex = (j - 1) \div 2
          /\ requests[j].type = (IF j % 2 = 1 THEN "video" ELSE "photo")
          /\ requests[j].delays = requests[j].personIndex

\* C8 witness: the second entity's video request is in flight, after one delay.
C8_Witness ==
    /\ search.pc = "video"
    /\ search.idx = 2
    /\ search.delays = 1
    /\ Cardinality(inFlight) = 1

\* C9 as stated: every mutating ledger operation, toggle included, yields the
\* same ledger when applied twice as when applied once.
C9_AllIdempotent ==
    /\ \A a \in ToggleArgs :
          Toggle(Toggle(selectedItems, a), a) = Toggle(selectedItems, a)
    /\ \A a \in BulkArgs :
          /\ SelectAll(SelectAll(selectedItems, a), a) = SelectAll(selectedItems, a)
          /\ DeselectAll(DeselectAll(selectedItems, a), a) = DeselectAll(selectedItems, a)
    /\ \A t \in Kinds :
          /\ selectAllGlobalUpdate(selectAllGlobalUpdate(selectedItems, gettyResults, t),
                                   gettyResults, t)
                = selectAllGlobalUpdate(selectedItems, gettyResults, t)
          /\ deselectAllGlobalUpdate(deselectAllGlobalUpdate(selectedItems, t), t)
                = deselectAllGlobalUpdate(selectedItems, t)

\* C9 amended: every bulk ledger operation (selectAllOfKind, deselectAllOfKind,
\* selectAllGlobal, deselectAllGlobal) yields the same ledger when applied
\* twice as when applied once; a second toggle always changes the ledger again.
C9_BulkIdempotent ==
    /\ \A a \in ToggleArgs :
          Toggle(Toggle(selectedItems, a), a) # Toggle(selectedItems, a)
    /\ \A a \in BulkArgs :
          /\ SelectAll(SelectAll(selectedItems, a), a) = SelectAll(selectedItems, a)
          /\ DeselectAll(DeselectAll(selectedItems, a), a) = DeselectAll(selectedItems, a)
    /\ \A t \in Kinds :
          /\ selectAllGlobalUpdate(selectAllGlobalUpdate(selectedItems, gettyResults, t),
                                   gettyResults, t)
                = selectAllGlobalUpdate(selectedItems, gettyResults, t)
          /\ deselectAllGlobalUpdate(deselectAllGlobalUpdate(selectedItems, t), t)
                = deselectAllGlobalUpdate(selectedItems, t)

\* C9 witness: Select All of one entity ran on a ledger that already held
\* Selections of that entity and kind, and of others.
C9_Witness ==
    /\ lastOp.op = "selectAll"
    /\ \E a \in BulkArgs :
          /\ a.personIndex = lastOp.personIndex
          /\ a.type = lastOp.type
          /\ Len(a.items) > 0
          /\ SelectAll(selectedItems, a) = selectedItems
    /\ Len(selectedItems) > 2

\* C10: a ledger operation invoked for one kind leaves the Selections of the
\* other kind as they were, in the same order.
C10_OtherKindUntouched ==
    /\ \A a \in ToggleArgs :
          OfKind(Toggle(selectedItems, a), OtherKind(a.type))
              = OfKind(selectedItems, OtherKind(a.type))
    /\ \A a \in BulkArgs :
          /\ OfKind(SelectAll(selectedItems, a), OtherKind(a.type))
                = OfKind(selectedItems, OtherKind(a.type))
          /\ OfKind(DeselectAll(selectedItems, a), OtherKind(a.type))
                = OfKind(selectedItems, OtherKind(a.type))
    /\ \A t \in Kinds :
          /\ OfKind(selectAllGlobalUpdate(selectedItems, gettyResults, t), OtherKind(t))
                = OfKind(selectedItems, OtherKind(t))
          /\ OfKind(deselectAllGlobalUpdate(selectedItems, t), OtherKind(t))
                = OfKind(selectedItems, OtherKind(t))

\* the Selections of one entity and one kind, in ledger order
OfEntityKind(items, personIndex, type) ==
    SelectSeq(items, LAMBDA item :
        item.personIndex = personIndex /\ item.mediaType = type)

\* C11: from any ledger, selectAllOfKind(i, 'video', items) followed by
\* deselectAllOfKind(i, 'video') leaves no video Selection of entity i and
\* leaves the photo Selections of entity i as they were; the ledger a
\* Deselect All handler leaves holds no Selection of its entity and kind.
C11_SelectThenDeselect ==
    /\ \A a \in BulkArgs :
          a.type = "video" =>
            LET after == DeselectAll(SelectAll(selectedItems, a), a)
            IN  /\ OfEntityKind(after, a.personIndex, "video") = <<>>
                /\ OfEntityKind(after, a.personIndex, "photo")
                      = OfEntityKind(selectedItems, a.personIndex, "photo")
    /\ lastOp.op = "deselectAll" =>
          OfEntityKind(selectedItems, lastOp.personIndex, lastOp.type) = <<>>

\* C11 witness: Deselect All Videos of an entity with videos on offer ran
\* while the ledger held a photo Selection of that entity, which is still there.
C11_Witness ==
    /\ lastOp.op = "deselectAll"
    /\ lastOp.type = "video"
    /\ Len(gettyResults[lastOp.personIndex + 1].videos) > 0
    /\ OfEntityKind(selectedItems, lastOp.personIndex, "photo") # <<>>
    /\ OfEntityKind(selectedItems, lastOp.personIndex, "video") = <<>>

\* C12: compile invoked with zero selections surfaces an error, leaves the
\* export text empty and the step counter where it was; the step counter
\* becomes 5 only by a compile of a ledger with at least one Selection.
C12_EmptyCompileFails ==
    /\ [](Len(selectedItems) = 0 => exportText = Empty)
    /\ [][/\ handleCompileExportEmpty =>
                /\ error' # Empty
                /\ exportText' = Empty
                /\ currentStep' = currentStep
          /\ (currentStep' = 5 /\ currentStep # 5) =>
                /\ Len(selectedItems) > 0
                /\ exportText' = CompileCsv(selectedItems, gettyResults)]_vars

\* C12 witness: compile ran at step 4 with an empty ledger.
C12_Witness ==
    /\ error = <<"No items selected. Please select videos or photos to export.">>
    /\ selectedItems = <<>>
    /\ exportText = Empty
    /\ currentStep = 4

\* a Selection resolves: the result set at its entity index holds a media
\* of its kind with its id
Resolves(item, results) ==
    /\ item.personIndex + 1 \in 1..Len(results)
    /\ \E k \in 1..Len(MediaOf(results[item.personIndex + 1], item.mediaType)) :
          MediaOf(results[item.personIndex + 1], item.mediaType)[k].id = item.mediaId

\* C13: a compiled export is the header row followed by exactly one row per
\* Selection that resolves by (kind, id) in the result set of its entity
\* index, in ledger order; Selections that do not resolve leave no row and
\* no error, and the compile still reaches step 5.
C13_RowPerResolved ==
    exportText # Empty =>
        LET resolved == { i \in 1..Len(selectedItems) :
                            Resolves(selectedItems[i], gettyResults) }
            rank(i) == Cardinality({ j \in resolved : j <= i })
        IN  /\ exportText[1] = CsvHeader
            /\ Len(exportText) = 1 + Cardinality(resolved)
            /\ \A i \in resolved :
                  LET item == selectedItems[i]
                      row == exportText[1 + rank(i)]
                      media == CHOOSE m \in Range(MediaOf(gettyResults[item.personIndex + 1],
                                                          item.mediaType)) :
                                  m.id = item.mediaId
                  IN  /\ row[1] = item.personName
                      /\ row[2] = item.mediaId
                      /\ row[3] = item.mediaType
                      /\ row[4] = QuoteTitle(media.title)
                      /\ row[6] = media.compUrl
            /\ error = Empty
            /\ currentStep = 5

\* C13 witness: a ledger of two Selections was compiled, the first does not
\* resolve (its id is of the other kind only) and the second does: one row.
C13_Witness ==
    /\ exportText # Empty
    /\ Len(selectedItems) = 2
    /\ ~Resolves(selectedItems[1], gettyResults)
    /\ selectedItems[1].personIndex + 1 \in 1..Len(gettyResults)
    /\ Resolves([selectedItems[1] EXCEPT !.mediaType = OtherKind(@)], gettyResults)
    /\ Resolves(selectedItems[2], gettyResults)
    /\ Len(exportText) = 2

\* the positions of a packaging run whose fetch was rejected
Rejected(d) == { k \in 1..Len(d.outcomes) : d.outcomes[k] = "throw" }

\* C14: a rejected fetch of one item does not end the packaging run: every
\* Selection of the packaged ledger is attempted before the archive is
\* generated, every item whose fetch was not rejected has its entry in the
\* archive, every rejection is logged, and none is shown as an error or
\* keeps the archive from being handed over.
C14_PartialSuccess ==
    /\ download.pc = "fetching" => (isDownloading /\ error = Empty)
    /\ download.pc = "generating" => (isDownloading /\ error = Empty)
    /\ Len(download.logged) = Cardinality(Rejected(download))
    /\ \A k \in 1..Len(download.outcomes) :
          download.outcomes[k] # "throw" =>
              \E e \in download.zip :
                  /\ e.path = ZipPath(download.items[k].personName, download.items[k].item)
                  /\ e.blob.url = download.items[k].item.compUrl
    /\ download.pc \in {"generating", "done"} =>
          /\ Len(download.outcomes) = Len(selectedItems)
          /\ { download.items[k].item : k \in 1..Len(download.items) } = Range(selectedItems)
          /\ \A k \in Rejected(download) :
                \E j \in 1..Len(download.logged) :
                    download.logged[j] = download.items[k].item.fileName
    /\ (download.pc = "done" /\ download.saved # <<>>) => error = Empty

\* C14 witness: the fetch of an entity's video was rejected, the fetch of
\* the same entity's photo after it succeeded, and the archive handed over
\* holds the photo alone.
C14_Witness ==
    /\ download.pc = "done"
    /\ Len(download.items) = 2
    /\ download.items[1].item.mediaType = "video"
    /\ download.items[2].item.mediaType = "photo"
    /\ download.items[1].item.personIndex = download.items[2].item.personIndex
    /\ download.outcomes = <<"throw", "ok">>
    /\ download.logged = <<download.items[1].item.fileName>>
    /\ Cardinality(download.zip) = 1
    /\ download.saved = <<download.zip>>
    /\ error = Empty

\* C15: a finished packaging run has failed, with the error shown and no
\* archive handed over, exactly when its archive holds zero items.
C15_FailsIffEmpty ==
    download.pc = "done" =>
        ((download.zip = {}) <=> (error # Empty /\ download.saved = <<>>))

\* C16 as stated: every finished packaging run has attempted every Selection
\* and has handed its archive over exactly once.
C16_HandedExactlyOnce ==
    download.pc = "done" =>
        /\ Len(download.outcomes) = Len(download.items)
        /\ Len(download.saved) = 1

\* C16 amended: the archive is handed over only after a fetch was attempted
\* for every Selection of the packaged ledger, as one blob and at most once
\* per run: exactly once when zip.generateAsync succeeds, and not at all
\* when it is rejected, in which case the error is shown.
C16_HandedAfterAllAttempts ==
    /\ download.pc \in {"idle", "fetching", "generating"} => download.saved = <<>>
    /\ Len(download.saved) <= 1
    /\ download.saved # <<>> =>
          /\ Len(download.outcomes) = Len(download.items)
          /\ Len(download.items) = Len(selectedItems)
          /\ download.saved[1] = download.zip
    /\ download.pc = "done" => (download.saved = <<>> <=> error # Empty)
    /\ download.pc = "done" => ~isDownloading

\* C16 witness: a run over three Selections handed its archive over after
\* three attempts, the second of them rejected.
C16_Witness ==
    /\ download.pc = "done"
    /\ Len(download.items) = 3
    /\ download.outcomes = <<"ok", "throw", "ok">>
    /\ Len(download.saved) = 1
    /\ Cardinality(download.saved[1]) = 2

\* C17: every archive entry lies at entityName/videos/mediaId.mp4 for a
\* video Selection and at entityName/photos/mediaId.jpg for a photo
\* Selection, entityName being the name of the entity the Selection was
\* made for; every item fetched has its entry there.
C17_PathLayout ==
    LET PathOf(item) ==
            << gettyResults[item.personIndex + 1].person.name,
               IF item.mediaType = "video" THEN "videos" ELSE "photos",
               << item.mediaId, IF item.mediaType = "video" THEN "mp4" ELSE "jpg" >> >>
        fetched == { download.items[k].item :
                        k \in { j \in 1..Len(download.outcomes) :
                                    download.outcomes[j] # "throw" } }
    IN  /\ \A e \in download.zip : \E item \in fetched : e.path = PathOf(item)
        /\ \A item \in fetched : \E e \in download.zip : e.path = PathOf(item)

\* C17 witness: the archive handed over holds the video and the photo of
\* one entity that carry the same id, at two different paths.
C17_Witness ==
    /\ download.pc = "done"
    /\ download.saved # <<>>
    /\ \E e1, e2 \in download.zip :
          /\ e1.path[1] = e2.path[1]
          /\ e1.path[2] = "videos"
          /\ e2.path[2] = "photos"
          /\ e1.path[3][1] = e2.path[3][1]
          /\ e1.path[3][2] = "mp4"
          /\ e2.path[3][2] = "jpg"

\* C18: search invoked without a token shows an error, sends no provider
\* request, leaves the result sets and the step counter as they were and
\* starts no run; as long as there is no token, no request was ever sent and
\* the step counter is below 4.
C18_NoTokenNoSearch ==
    /\ [](accessToken = NULL =>
            /\ requests = <<>>
            /\ inFlight = {}
            /\ gettyResults = <<>>
            /\ currentStep < 4)
    /\ [][handleSearchGettyNoToken =>
            /\ error' = <<"Getty API not initialized">>
            /\ inFlight' = inFlight
            /\ requests' = requests
            /\ search' = search
            /\ gettyResults' = gettyResults
            /\ currentStep' = currentStep
            /\ isLoading' = isLoading]_vars

\* C18 witness: the token request failed, the entity list is there, and the
\* search was invoked at step 3.
C18_Witness ==
    /\ accessToken = NULL
    /\ tokenPc = "done"
    /\ currentStep = 3
    /\ Len(shotlist) > 0
    /\ error = <<"Getty API not initialized">>
    /\ requests = <<>>
    /\ gettyResults = <<>>

\* a text holds every piece of another
Holds(text, pieces) ==
    \A j \in 1..Len(pieces) : \E i \in 1..Len(text) : text[i] = pieces[j]

\* C19: when a provider call is answered with a non-success status, the
\* error shown to the operator holds the status and the payload of that answer.
C19_StatusAndPayload ==
    [][\A out \in FailedOutcomes :
          (out.type = "status" /\ (videoSearchReturns(out) \/ photoSearchReturns(out))) =>
              /\ Holds(error', <<ToString(out.status)>>)
              /\ Holds(error', out.body)]_vars

\* the model's answers that are no usable entity list: no JSON, no array, or
\* an empty array
MalformedOutcomes ==
    { out \in ModelOutcomes(EntityLists) :
        \/ out.type = "badjson"
        \/ out.type = "nonarray"
        \/ (out.type = "array" /\ out.people = <<>>) }

\* C20: when the model's content is no valid JSON, parses to a value that is
\* no array, or parses to an empty array, the extraction shows an error,
\* leaves the entity list empty and the step counter at 2, and leaves the
\* Generate Shotlist button enabled for another attempt.
C20_ExtractionFails ==
    [][\A out \in MalformedOutcomes :
          generateContentReturns(out) =>
              /\ error' # Empty
              /\ shotlist = <<>>
              /\ shotlist' = <<>>
              /\ currentStep = 2
              /\ currentStep' = 2
              /\ ~isLoading'
              /\ genPc' = "idle"]_vars

\* C20 witness: an extraction ended on an empty or non-array answer; the
\* application is at step 2 with the button enabled.
C20_Witness ==
    /\ error = <<"No people found in script">>
    /\ shotlist = <<>>
    /\ currentStep = 2
    /\ ~isLoading
    /\ genPc = "idle"

\* the value of a parameter of a request, <<>> when the parameter is absent
\* and the value as the one element otherwise
ParamOf(request, key) ==
    LET hits == SelectSeq(request.params, LAMBDA kv : kv[1] = key)
    IN  [i \in 1..Len(hits) |-> hits[i][2]]

\* C21: the phrase of every request sent for an entity is the entity's name
\* alone, or the name followed by " PMCARC"; it is the second exactly when
\* phrase augmentation is on as the search is started, and it never holds
\* the entity's searchTerm.
C21_PhraseIsName ==
    /\ [](\A j \in 1..Len(requests) :
            LET person == shotlist[requests[j].personIndex + 1]
                phrase == ParamOf(requests[j], "phrase")
            IN  /\ Len(phrase) = 1
                /\ phrase[1] \in { <<person.name>>, <<person.name, " PMCARC">> }
                /\ ~Holds(phrase[1], <<person.searchTerm>>)
                /\ phrase[1] = ParamOf(requests[1], "phrase")[1]
                      \/ person.name # shotlist[1].name)
    /\ [][handleSearchGetty =>
            ParamOf(requests'[1], "phrase")
                = << IF usePMCARC THEN <<shotlist[1].name, " PMCARC">>
                                  ELSE <<shotlist[1].name>> >>]_vars

\* C21 witness: with phrase augmentation switched off, the photo request of
\* the second entity went out with the bare name.
C21_Witness ==
    /\ Len(requests) = 4
    /\ requests[4].type = "photo"
    /\ ParamOf(requests[4], "phrase") = << <<shotlist[2].name>> >>
    /\ shotlist[2].searchTerm # shotlist[2].name

\* the codes in the fixed order of the specification
FixedCodes == <<"blb", "wom", "rol", "tho", "vrt">>

\* the toggles of the codes, in the same order
FixedKeys == <<"billboard", "wwd", "rollingStone", "hollywoodReporter", "variety">>

\* the positions in FixedCodes of the active toggles of a filter
ActiveCodes(coll) == { i \in 1..Len(FixedCodes) : coll[FixedKeys[i]] }

PositionOf(code) == CHOOSE i \in 1..Len(FixedCodes) : FixedCodes[i] = code

\* value is the comma-joined list of exactly the active codes in fixed order
JoinedActive(value, coll) ==
    /\ Len(value) = 2 * Cardinality(ActiveCodes(coll)) - 1
    /\ \A p \in 1..Len(value) :
          IF p % 2 = 0
          THEN value[p] = ","
          ELSE /\ value[p] \in Range(FixedCodes)
               /\ PositionOf(value[p]) \in ActiveCodes(coll)
               /\ p > 2 => PositionOf(value[p - 2]) < PositionOf(value[p])

\* C22: whatever the filter controls have set, the collection_codes
\* parameter of the requests of a search is the comma-joined list of the
\* codes of exactly the toggles that are on as the search is started, in
\* the order blb,wom,rol,tho,vrt, and the requests carry no such parameter
\* when all five toggles are off; every request of a run carries the same.
C22_CollectionCodes ==
    /\ [](\A j \in 1..Len(requests) :
            ParamOf(requests[j], "collection_codes")
                = ParamOf(requests[1], "collection_codes"))
    /\ [][handleSearchGetty =>
            LET codes == ParamOf(requests'[1], "collection_codes")
            IN  IF ActiveCodes(collections) = {}
                THEN codes = <<>>
                ELSE /\ Len(codes) = 1
                     /\ JoinedActive(codes[1], collections)]_vars

\* C22 witness: a search was started with all five toggles off; its
\* request carries no collection_codes parameter.
C22_Witness ==
    /\ Len(requests) > 0
    /\ search.pc = "video"
    /\ ActiveCodes(collections) = {}
    /\ ParamOf(requests[1], "collection_codes") = <<>>
    /\ Len(requests[1].params) = 5

\* media is the normalisation of the first min(5, n) of the n records of a
\* body, in the order of the body
FirstFive(media, body) ==
    /\ Len(media) = (IF Len(body) < 5 THEN Len(body) ELSE 5)
    /\ \A i \in 1..Len(media) :
          /\ media[i].id = body[i].id
          /\ media[i].title = body[i].title
          /\ media[i].dateCreated = body[i].date_created

\* C23: the media array a search keeps for an entity and a kind is the first
\* min(5, n) of the n records of the answer, in the order of the answer;
\* the arrays are published as kept, so no published array holds more than
\* 5 items.
C23_FirstFive ==
    /\ [](\A i \in 1..Len(gettyResults) :
            /\ Len(gettyResults[i].videos) <= 5
            /\ Len(gettyResults[i].photos) <= 5)
    /\ [][/\ \A out \in Outcomes("video", MaxRecords) :
                (out.type = "ok" /\ videoSearchReturns(out)) =>
                    FirstFive(search'.videos, out.body)
          /\ \A out \in Outcomes("photo", MaxRecords) :
                (out.type = "ok" /\ photoSearchReturns(out)) =>
                    LET result == search'.results[Len(search'.results)]
                    IN  /\ FirstFive(result.photos, out.body)
                        /\ result.videos = search.videos
          /\ (delayElapses /\ gettyResults' # gettyResults) =>
                gettyResults' = search.results]_vars

\* C23 witness: both answers for an entity held 6 records; 5 videos and 5
\* photos were kept.
C23_Witness ==
    /\ search.pc = "delay"
    /\ search.returned = <<6, 6>>
    /\ Len(search.results[1].videos) = 5
    /\ Len(search.results[1].photos) = 5
    /\ search.results[1].videos[5].id = 5

\* C24: every provider response with a status outside 200..299 is answered
\* by the gateway with the status and the body of that response.
C24_ForwardsNon2xx ==
    (gateway.pc = "done" /\ gateway.answer # <<>>) =>
        LET ans == gateway.answer[1]
        IN  (ans.type = "response" /\ ans.status \notin 200..299) =>
                /\ gateway.response.status = ans.status
                /\ gateway.response.body = ans.body

\* C25: from the publication of the result sets (step >= 4) on, the entity
\* list and the result sets change by the reset only; every other handler
\* leaves both as they are.
C25_ResultsFrozen ==
    [][currentStep >= 4 =>
          \/ /\ shotlist' = shotlist
             /\ gettyResults' = gettyResults
          \/ /\ handleClear
             /\ shotlist' = <<>>
             /\ gettyResults' = <<>>]_vars

\* C25 witness: after the publication of two result sets a global Select All
\* filled the ledger; the result sets are those of the two entities.
C25_Witness ==
    /\ currentStep = 4
    /\ lastOp.op = "selectAllGlobal"
    /\ Len(selectedItems) >= 2
    /\ Len(gettyResults) = 2
    /\ Len(shotlist) = 2

\* the number of Selections of a ledger for one media item of one entity
CountOf(items, personIndex, mediaId, type) ==
    Cardinality({ k \in 1..Len(items) :
        /\ items[k].personIndex = personIndex
        /\ items[k].mediaId = mediaId
        /\ items[k].mediaType = type })

\* a ledger holds, for a kind, one Selection per media item of that kind of
\* every result set and no other Selection of that kind
HoldsAllOfKind(items, results, type) ==
    /\ \A i \in 1..Len(results) :
          \A k \in 1..Len(MediaOf(results[i], type)) :
              CountOf(items, i - 1, MediaOf(results[i], type)[k].id, type) = 1
    /\ \A s \in Range(OfKind(items, type)) :
          \E i \in 1..Len(results) :
              \E k \in 1..Len(MediaOf(results[i], type)) :
                  s = SelectedItem(i - 1, results[i].person.name,
                                   MediaOf(results[i], type)[k], type)

\* C26: selectAllGlobal(kind) leaves, for that kind, exactly one Selection per
\* media item of that kind of every result set, whatever the ledger held
\* before, and deselectAllGlobal(kind) leaves no Selection of that kind.
C26_GlobalExact ==
    /\ \A t \in Kinds :
          /\ HoldsAllOfKind(selectAllGlobalUpdate(selectedItems, gettyResults, t),
                            gettyResults, t)
          /\ OfKind(deselectAllGlobalUpdate(selectedItems, t), t) = <<>>
    /\ lastOp.op = "selectAllGlobal" =>
          HoldsAllOfKind(selectedItems, gettyResults, lastOp.type)
    /\ lastOp.op = "deselectAllGlobal" => OfKind(selectedItems, lastOp.type) = <<>>

\* C26 witness: the global Select All Videos ran on result sets offering two
\* videos while the ledger holds a photo Selection; a second run on this
\* ledger replaces the video Selections by the same ones.
C26_Witness ==
    /\ lastOp.op = "selectAllGlobal"
    /\ lastOp.type = "video"
    /\ Len(OfKind(selectedItems, "video")) >= 2
    /\ OfKind(selectedItems, "photo") # <<>>
    /\ selectAllGlobalUpdate(selectedItems, gettyResults, "video") = selectedItems

\* the Selections of every entity index but one, in ledger order
OfOtherEntities(items, personIndex) ==
    SelectSeq(items, LAMBDA item : item.personIndex # personIndex)

\* C27: selectAllOfKind(i, name, items, kind) leaves exactly one Selection per
\* item of items for (i, kind); it and deselectAllOfKind(i, kind) leave the
\* Selections of every other entity index as they were.
C27_PerEntityExact ==
    \A a \in BulkArgs :
        LET selected == SelectAll(selectedItems, a)
            deselected == DeselectAll(selectedItems, a)
        IN  /\ \A k \in 1..Len(a.items) :
                  CountOf(selected, a.personIndex, a.items[k].id, a.type) = 1
            /\ Len(OfEntityKind(selected, a.personIndex, a.type)) = Len(a.items)
            /\ OfOtherEntities(selected, a.personIndex)
                  = OfOtherEntities(selectedItems, a.personIndex)
            /\ OfOtherEntities(deselected, a.personIndex)
                  = OfOtherEntities(selectedItems, a.personIndex)

\* C27 witness: Select All Photos of one entity ran while the ledger held a
\* photo Selection of another entity, which is still there.
C27_Witness ==
    /\ lastOp.op = "selectAll"
    /\ lastOp.type = "photo"
    /\ OfEntityKind(selectedItems, lastOp.personIndex, "photo") # <<>>
    /\ \E s \in Range(OfOtherEntities(selectedItems, lastOp.personIndex)) :
          s.mediaType = "photo"

\* C28: whatever fails (token, extraction, search, export precondition,
\* packaging), in every reachable state step >= 3 implies a non-empty entity
\* list, and step >= 4 implies non-empty result sets, one per entity of the
\* entity list and in its order.
C28_StepConsistent ==
    /\ currentStep >= 3 => Len(shotlist) > 0
    /\ currentStep >= 4 =>
          /\ Len(gettyResults) > 0
          /\ Len(gettyResults) = Len(shotlist)
          /\ \A i \in 1..Len(gettyResults) : gettyResults[i].person = shotlist[i]

\* C28 witness: at step 5 the generation of an archive failed and its error
\* is shown; the entity list and the result sets are in place.
C28_Witness ==
    /\ currentStep = 5
    /\ error = <<"generateAsync failed">>
    /\ download.pc = "done"
    /\ Len(shotlist) = 1
    /\ Len(gettyResults) = 1

\* C29: provided every pending call returns or fails, every started
\* extraction, search and packaging run finishes, in completion or failure,
\* with its busy flag false again; a busy flag is true only while its
\* operation runs, so the operation can be triggered anew afterwards.
C29_OperationsFinish ==
    /\ (genPc = "calling") ~> (genPc = "idle" /\ ~isLoading)
    /\ (search.pc # "idle") ~> (search.pc = "idle" /\ ~isLoading)
    /\ (download.pc \in {"fetching", "generating"})
          ~> (download.pc = "done" /\ ~isDownloading)
    /\ [](isLoading => (genPc = "calling" \/ search.pc # "idle"))
    /\ [](isDownloading => download.pc \in {"fetching", "generating"})

\* C29 witness: an extraction and a search have finished, a packaging run of
\* two items ended in the failure of the archive's generation, and both busy
\* flags are false.
C29_Witness ==
    /\ genPc = "idle"
    /\ search.pc = "idle"
    /\ requests # <<>>
    /\ download.pc = "done"
    /\ Len(download.outcomes) >= 2
    /\ download.saved = <<>>
    /\ ~isLoading
    /\ ~isDownloading

\* a step of a package run: its start, the end of a fetch, the end of the
\* generation of the archive
PackageRunStep ==
    \/ downloadSelectedAsZip
    \/ PackageStep
    \/ download' # download
    \/ isDownloading' # isDownloading

\* a compile run, with or without Selections
CompileRunStep == handleCompileExport \/ handleCompileExportEmpty

\* C30: a step of a package run leaves the ledger, the result sets, the
\* entity list, the export text and the step counter unchanged; a compile
\* run leaves the ledger, the result sets and the entity list unchanged; and
\* both can be run again: after a package run has ended the download is on
\* offer while there are Selections, and once a text is compiled the compile
\* is on offer.
C30_TerminalOpsFrame ==
    /\ [][/\ PackageRunStep =>
                UNCHANGED <<selectedItems, gettyResults, shotlist, exportText, currentStep>>
          /\ CompileRunStep =>
                UNCHANGED <<selectedItems, gettyResults, shotlist>>]_vars
    /\ []((download.pc = "done" /\ SelectionControlsRendered /\ Len(selectedItems) > 0)
            => ENABLED downloadSelectedAsZip)
    /\ []((currentStep = 5 /\ exportText # Empty) => ENABLED handleCompileExport)

\* C30 witness: after a compile a package run was started and handed its
\* archive over; the ledger, the export text and step 5 are in place.
C30_Witness ==
    /\ download.pc = "done"
    /\ download.saved # <<>>
    /\ exportText # Empty
    /\ currentStep = 5
    /\ Len(selectedItems) >= 2

\* C31: in every reachable state every Selection of the ledger resolves (its
\* entity index is an index of the result sets, its media id the id of an
\* item of its kind there), so a compile of the ledger yields one data row
\* per Selection, and so does the export text on display.
C31_EverySelectionResolves ==
    /\ \A i \in 1..Len(selectedItems) : Resolves(selectedItems[i], gettyResults)
    /\ Len(CsvRows(selectedItems, gettyResults)) = Len(selectedItems)
    /\ exportText # Empty => Len(exportText) = 1 + Len(selectedItems)

\* C31 witness: an export of three Selections, of both kinds and of two
\* entities, is on display with its three data rows.
C31_Witness ==
    /\ exportText # Empty
    /\ Len(exportText) = 4
    /\ Len(selectedItems) = 3
    /\ \E i, j \in 1..3 :
          /\ selectedItems[i].personIndex # selectedItems[j].personIndex
          /\ selectedItems[i].mediaType # selectedItems[j].mediaType

\* no extraction and no search is in flight
NoneInFlight ==
    /\ genPc = "idle"
    /\ search.pc = "idle"
    /\ inFlight = {}
    /\ ~isLoading

\* C32: where the reset is on offer no extraction and no search is in flight,
\* and none is in flight in the reset workflow (step 1) either, so nothing
\* that completes after a reset writes the entity list, the result sets or
\* the step counter.
C32_NoResetInFlight ==
    /\ ENABLED handleClear => NoneInFlight
    /\ currentStep = 1 => (NoneInFlight /\ shotlist = <<>> /\ gettyResults = <<>>)

\* C32 witness: the workflow was reset after a search (its request log is
\* still there) and is at step 1 with nothing in flight.
C32_Witness ==
    /\ currentStep = 1
    /\ requests # <<>>
    /\ script = Empty
    /\ selectedItems = <<>>
    /\ NoneInFlight

\* a packaging run is in flight
Packaging == download.pc \in {"fetching", "generating"}

\* C33: at most one extraction or search and at most one packaging run are
\* in flight: the extraction and the search never run together, a search has
\* one request pending at most, each busy flag is true exactly while its
\* operation runs, and while it is true the operation cannot be started.
C33_OneInFlight ==
    /\ ~(genPc = "calling" /\ search.pc # "idle")
    /\ Cardinality(inFlight) <= 1
    /\ isLoading <=> (genPc = "calling" \/ search.pc # "idle")
    /\ isDownloading <=> Packaging
    /\ isLoading => (~ENABLED handleGenerateShotlist /\ ~ENABLED handleSearchGetty)
    /\ isDownloading => ~ENABLED downloadSelectedAsZip

\* C33 witness: an extraction of the workflow begun after a reset is pending
\* while the packaging run started before the reset is still fetching.
C33_Witness ==
    /\ isLoading
    /\ genPc = "calling"
    /\ isDownloading
    /\ download.pc = "fetching"

\* the phrase of a request carries the augmentation
Augmented(request) == Len(ParamOf(request, "phrase")[1]) = 2

\* C34: every request of a search run carries the phrase augmentation and
\* the collection_codes of the run's first request, which is sent as the
\* search is triggered; a change of a collection toggle or of the
\* augmentation flag while the run is in flight touches neither the run nor
\* its requests.
C34_FilterSnapshot ==
    /\ [](\A j \in 1..Len(requests) :
            /\ Augmented(requests[j]) = Augmented(requests[1])
            /\ ParamOf(requests[j], "collection_codes")
                  = ParamOf(requests[1], "collection_codes")
            /\ Len(requests[j].params) = Len(requests[1].params))
    /\ [][handleSearchGetty =>
            /\ Len(requests') = 1
            /\ Augmented(requests'[1]) = usePMCARC]_vars
    /\ [][(search.pc # "idle" /\ filterVars' # filterVars) =>
            UNCHANGED <<search, inFlight, requests>>]_vars

\* C34 witness: while a run was in flight the augmentation flag and a
\* collection toggle were changed; the request sent afterwards for the
\* second entity carries the configuration of the first request.
C34_Witness ==
    /\ search.pc = "video"
    /\ Len(requests) = 3
    /\ usePMCARC # Augmented(requests[1])
    /\ ~JoinedActive(ParamOf(requests[1], "collection_codes")[1], collections)
    /\ Augmented(requests[3]) = Augmented(requests[1])
    /\ ParamOf(requests[3], "collection_codes") = ParamOf(requests[1], "collection_codes")

\* the paths of the first n items of a package run whose fetch was not rejected
PathsFetched(d, n) ==
    { ZipPath(d.items[k].personName, d.items[k].item) :
        k \in { j \in 1..n : d.outcomes[j] # "throw" } }

\* C35: a package run works on the ledger as it was at its start: the items
\* to fetch are fixed by the ledger of that moment, no handler that runs
\* during the run (ledger handlers, reset) changes them, and the paths
\* written to the archive are those of the items of that list fetched so
\* far, whatever the ledger holds by then.
C35_PackagesSnapshot ==
    /\ [][downloadSelectedAsZip => download'.items = GroupedByPerson(selectedItems)]_vars
    /\ [][Packaging => download'.items = download.items]_vars
    /\ [][(Packaging /\ selectedItems' # selectedItems) => download' = download]_vars
    /\ [](Len(download.outcomes) <= Len(download.items))
    /\ []({ e.path : e \in download.zip }
            = PathsFetched(download, Len(download.outcomes)))

\* C35 witness: the ledger was emptied while a package run of two items was
\* in flight; the archive handed over holds both items.
C35_Witness ==
    /\ download.pc = "done"
    /\ download.saved # <<>>
    /\ Len(download.items) = 2
    /\ Cardinality(download.zip) = 2
    /\ selectedItems = <<>>

\* every fetch of a finished package run answered with an ok status
AllFetched(d) ==
    /\ d.pc = "done"
    /\ d.saved # <<>>
    /\ \A k \in 1..Len(d.outcomes) : d.outcomes[k] = "ok"

\* C36: the Selections of a packaged ledger map to pairwise distinct archive
\* paths, so the archive of a run whose fetches all succeeded holds as many
\* entries as the ledger has Selections, also when two entities share a name.
C36_DistinctPaths ==
    AllFetched(download) =>
        /\ \A i, j \in 1..Len(download.items) :
              i # j => ZipPath(download.items[i].personName, download.items[i].item)
                          # ZipPath(download.items[j].personName, download.items[j].item)
        /\ Cardinality(download.zip) = Len(selectedItems)

====
